---- MODULE Spec2Model ----
(***************************************************************************)
(* Feedback intake API (routes/feedback.js in its two revisions, the      *)
(* Feedback schema, the SMS alert helper), the auth middleware and the     *)
(* auth router (register, login, refresh), and the chat router             *)
(* (routes/chat.js) with its per-caller history.  A handler that awaits    *)
(* the database or the AI service is two actions, one up to the await and  *)
(* one from its completion, so that handlers interleave as they do on the  *)
(* event loop.                                                             *)
(*                                                                         *)
(* Strings whose content the code inspects (comments, the reply text of    *)
(* the sentiment service) are sequences of UTF-16 code units.  Enumerated  *)
(* strings (source, severity, loc, ...) are TLA+ strings; the string       *)
(* "undefined" stands for a key that is absent from the request body.      *)
(***************************************************************************)
EXTENDS Integers, Sequences, FiniteSets, TLC

VARIABLES variant, env, store, negIds, alerts, req, res,
          now, users, refreshTokens,
          chatHistoryStore, arrays, chatting, exchanges, asked,
          registering, submitting

vars == <<variant, env, store, negIds, alerts, req, res,
          now, users, refreshTokens,
          chatHistoryStore, arrays, chatting, exchanges, asked,
          registering, submitting>>

\* the clock and the two collections of the auth router
authVars == <<now, users, refreshTokens>>

\* routes/chat.js: the history store, the arrays it and the running
\* handlers refer to, the handlers that are waiting for the AI service,
\* the exchanges completed so far and the number of messages received
chatVars == <<chatHistoryStore, arrays, chatting, exchanges, asked>>

\* the register and submission handlers that are waiting for the database
flightVars == <<registering, submitting>>

\* req.ip || "default-session": the keys of chatHistoryStore
Sessions == {"10.0.0.1", "default-session"}

\* const chatHistoryStore = {}, and no handler is running
Idle ==
  /\ chatHistoryStore = [s \in Sessions |-> 0]
  /\ arrays = [i \in {} |-> <<>>]
  /\ chatting = {}
  /\ exchanges = [s \in Sessions |-> <<>>]
  /\ asked = 0
  /\ registering = {}
  /\ submitting = {}

(***************************************************************************)
(* Bounds of the model.                                                    *)
(***************************************************************************)
MaxCommentLen == 3
MaxStore == 2
MaxRatingIn == 3
MaxCommentFields == 1
MaxClock == 169
MaxUsers == 2
MaxRefreshTokens == 2
MaxChats == 3
MaxInFlight == 2

(***************************************************************************)
(* JavaScript values.                                                      *)
(***************************************************************************)
\* an absent number (a rating key that the body does not carry)
undefinedNum == -1
\* an absent text
undefinedStr == <<-1>>

\* JS truthiness of a text: undefined and "" are falsy
Truthy(s) == s # undefinedStr /\ s # <<>>

\* String.prototype.toLowerCase on the code units the model uses: A-Z fold
\* to a-z, Ethiopic syllables have no case
lowerUnit(c) == IF c >= 65 /\ c <= 90 THEN c + 32 ELSE c

toLowerCase(s) == [i \in 1..Len(s) |-> lowerUnit(s[i])]

\* String.prototype.includes
includes(s, k) ==
  \E i \in 0..(Len(s) - Len(k)) : SubSeq(s, i + 1, i + Len(k)) = k

WhiteSpace == {9, 10, 11, 12, 13, 32}

RECURSIVE trimStart(_)
trimStart(s) ==
  IF s # <<>> /\ Head(s) \in WhiteSpace THEN trimStart(Tail(s)) ELSE s

RECURSIVE trimEnd(_)
trimEnd(s) ==
  IF s # <<>> /\ s[Len(s)] \in WhiteSpace
  THEN trimEnd(SubSeq(s, 1, Len(s) - 1))
  ELSE s

\* String.prototype.trim (the schema's trim: true setter)
trim(s) == trimEnd(trimStart(s))

(***************************************************************************)
(* Keyword Negativity Classifier.                                          *)
(***************************************************************************)
NEGATIVE_KEYWORDS_ENG ==
  << <<98, 97, 100>>,                              \* bad
     <<100, 105, 114, 116, 121>>,                  \* dirty
     <<98, 114, 111, 107, 101, 110>>,              \* broken
     <<115, 108, 111, 119>>,                       \* slow
     <<99, 111, 108, 100>>,                        \* cold
     <<112, 111, 111, 114>>,                       \* poor
     <<117, 110, 104, 101, 108, 112, 102, 117, 108>>, \* unhelpful
     <<110, 111, 105, 115, 101>>,                  \* noise
     <<115, 109, 101, 108, 108>>,                  \* smell
     <<105, 115, 115, 117, 101>> >>                \* issue

NEGATIVE_KEYWORDS_AMH ==
  << <<4632, 4901, 4942>>,
     <<4678, 4667, 4667>>,
     <<4840, 4720, 4656, 4704, 4648>>,
     <<4672, 4653, 4939, 4939>>,
     <<4672, 4829, 4675, 4827>>,
     <<4848, 4779, 4635>>,
     <<4840, 4635, 4845, 4648, 4851>>,
     <<4907, 4907, 4723>>,
     <<4669, 4723>>,
     <<4733, 4877, 4653>>,
     <<4768, 4845, 4656, 4651, 4637>>,
     <<4773, 4653, 4901, 4704, 4725>> >>

allKeywords == NEGATIVE_KEYWORDS_ENG \o NEGATIVE_KEYWORDS_AMH

\* mutant of checkIfNegative: the comment is not lower-cased before matching
checkIfNegative_CaseSensitive(comment) ==
  IF ~Truthy(comment) THEN FALSE
  ELSE \E n \in DOMAIN allKeywords :
         includes(comment, toLowerCase(allKeywords[n]))

checkIfNegative(comment) ==
  IF ~Truthy(comment) THEN FALSE
  ELSE LET lowerComment == toLowerCase(comment)
       IN  \E n \in DOMAIN allKeywords :
             includes(lowerComment, toLowerCase(allKeywords[n]))

(***************************************************************************)
(* Process environment, read once at start-up (twilioClient) or on each    *)
(* call (the phone numbers, the sentiment API key).  TRUE = the variable is *)
(* set to a non-empty value.                                               *)
(***************************************************************************)
EnvKeys == {"TWILIO_ACCOUNT_SID", "TWILIO_AUTH_TOKEN", "ALERT_PHONE_NUMBER",
            "TWILIO_PHONE_NUMBER", "GEMINI_API_KEY"}

AllSet == [k \in EnvKeys |-> TRUE]

\* every variable set, or exactly one of them missing
Envs == {AllSet} \cup {[AllSet EXCEPT ![k] = FALSE] : k \in EnvKeys}

\* the two revisions of routes/feedback.js: "sentiment" is the one that
\* classifies guest comments with the external service and no longer
\* defines checkIfNegative, "keyword" the one that defines and uses it
Variants == {"sentiment", "keyword"}

\* let twilioClient; if (accountSid && authToken) twilioClient = require("twilio")(...)
twilioClient == env["TWILIO_ACCOUNT_SID"] /\ env["TWILIO_AUTH_TOKEN"]

(***************************************************************************)
(* Feedback schema (Mongoose, strict mode): the document built from the    *)
(* data handed to new Feedback(...) keeps the schema's paths only.         *)
(* The data record carries every key a handler can hand over; absent keys  *)
(* hold "undefined", undefinedNum or undefinedStr.                         *)
(* Of the schema's rating paths the model keeps the five the handlers      *)
(* read.  The clock now counts hours.                                      *)
(***************************************************************************)
EmptyData ==
  [ source |-> "undefined", rating |-> undefinedNum, comment |-> undefinedStr,
    roomNumber |-> "undefined", language |-> "undefined",
    sentiment |-> "undefined", isNegative |-> "undefined",
    category |-> "undefined", severity |-> "undefined",
    location |-> "undefined", details |-> undefinedStr,
    feedbackArea |-> "undefined", contextLoc |-> "undefined",
    contextId |-> "undefined", contextToken |-> "undefined",
    contextGuestName |-> "undefined",
    checkoutSpeed |-> undefinedNum, billingAccuracy |-> undefinedNum,
    roomCleanliness |-> undefinedNum, bathroomCleanliness |-> undefinedNum,
    foodQuality |-> undefinedNum,
    checkoutComments |-> undefinedStr, roomComments |-> undefinedStr,
    diningComments |-> undefinedStr, amenityComments |-> undefinedStr,
    amenitiesComments |-> undefinedStr, staffComments |-> undefinedStr,
    otherComments |-> undefinedStr ]

\* the trim: true setter of a String path
trimmed(s) == IF s = undefinedStr THEN s ELSE trim(s)

\* new Feedback(data): schema paths only (rating, roomNumber, language,
\* isNegative and amenityComments are no paths of the schema and are
\* dropped), setters and defaults applied
hydrate(d, t) ==
  [ _id |-> 0,
    source |-> d.source,
    timestamp |-> t,
    sentiment |-> IF d.sentiment = "undefined" THEN "Neutral" ELSE d.sentiment,
    comment |-> trimmed(d.comment),
    feedbackArea |-> d.feedbackArea,
    contextLoc |-> d.contextLoc,
    contextId |-> d.contextId,
    contextToken |-> d.contextToken,
    contextGuestName |-> d.contextGuestName,
    contactConsent |-> FALSE,
    otherComments |-> trimmed(d.otherComments),
    roomCleanliness |-> d.roomCleanliness,
    bathroomCleanliness |-> d.bathroomCleanliness,
    roomComments |-> trimmed(d.roomComments),
    foodQuality |-> d.foodQuality,
    diningComments |-> trimmed(d.diningComments),
    amenitiesComments |-> trimmed(d.amenitiesComments),
    checkoutSpeed |-> d.checkoutSpeed,
    billingAccuracy |-> d.billingAccuracy,
    staffComments |-> trimmed(d.staffComments),
    checkoutComments |-> trimmed(d.checkoutComments),
    category |-> d.category,
    severity |-> d.severity,
    location |-> d.location,
    details |-> trimmed(d.details) ]

\* the timestamp is the default Date.now of the schema, or the new Date()
\* that the contextual handler hands over
NewFeedback(d) == hydrate(d, now)

NoDoc == hydrate(EmptyData, undefinedNum)

\* mutant of RatingOk: the min validator is missing
RatingOk_NoMin(r) == r = undefinedNum \/ r <= 5

\* min: 1, max: 5
RatingOk(r) == r = undefinedNum \/ (r >= 1 /\ r <= 5)

LengthOk(s, n) == s = undefinedStr \/ Len(s) <= n

\* the schema's validators, run by save()
Validate(doc) ==
  /\ doc.source \in {"Guest", "Staff"}
  /\ doc.sentiment \in {"Positive", "Neutral", "Negative"}
  /\ LengthOk(doc.comment, 1000)
  /\ LengthOk(doc.otherComments, 1000)
  /\ RatingOk(doc.roomCleanliness)
  /\ RatingOk(doc.bathroomCleanliness)
  /\ LengthOk(doc.roomComments, 500)
  /\ RatingOk(doc.foodQuality)
  /\ LengthOk(doc.diningComments, 500)
  /\ LengthOk(doc.amenitiesComments, 500)
  /\ RatingOk(doc.checkoutSpeed)
  /\ RatingOk(doc.billingAccuracy)
  /\ LengthOk(doc.staffComments, 500)
  /\ LengthOk(doc.checkoutComments, 500)
  /\ doc.category \in {"undefined", "Room", "Food", "Service", "Maintenance", "Other"}
  /\ doc.severity \in {"undefined", "Low", "Medium", "High"}

\* mutant of save: the validators do not run
save_Unvalidated(doc, dbOk) == IF ~dbOk THEN "MongoError" ELSE "ok"

\* newFeedback.save(): the error it rejects with, or "ok"
save(doc, dbOk) ==
  IF ~Validate(doc) THEN "ValidationError"
  ELSE IF ~dbOk THEN "MongoError"
  ELSE "ok"

(***************************************************************************)
(* External Sentiment Classifier.  api is what the HTTP call to the        *)
(* text-generation service does: "neterr" (fetch rejects), "status"        *)
(* (response.ok is false), "badjson" (response.json() rejects), or "ok"    *)
(* with the text of the first candidate (undefinedStr when the reply has   *)
(* no such part).                                                          *)
(***************************************************************************)
Txt_positive == <<112, 111, 115, 105, 116, 105, 118, 101>>
Txt_negative == <<110, 101, 103, 97, 116, 105, 118, 101>>

\* mutant of analyzeSentiment: a failed call is reported as Negative
analyzeSentiment_FailNegative(comment, api) ==
  IF ~Truthy(comment) THEN "Neutral"
  ELSE IF ~env["GEMINI_API_KEY"] THEN "Neutral"
  ELSE IF api.kind \in {"neterr", "status", "badjson"} THEN "Negative"
  ELSE IF ~Truthy(api.text) THEN "Neutral"
  ELSE IF includes(toLowerCase(trim(api.text)), Txt_positive) THEN "Positive"
  ELSE IF includes(toLowerCase(trim(api.text)), Txt_negative) THEN "Negative"
  ELSE "Neutral"

analyzeSentiment(comment, api) ==
  IF ~Truthy(comment) THEN "Neutral"
  ELSE IF ~env["GEMINI_API_KEY"] THEN "Neutral"
  ELSE IF api.kind = "neterr" THEN "Neutral"        \* catch (err)
  ELSE IF api.kind = "status" THEN "Neutral"        \* !response.ok
  ELSE IF api.kind = "badjson" THEN "Neutral"       \* catch (err)
  ELSE IF ~Truthy(api.text) THEN "Neutral"          \* if (result) fails
  ELSE LET result == toLowerCase(trim(api.text))
       IN  IF includes(result, Txt_positive) THEN "Positive"
           ELSE IF includes(result, Txt_negative) THEN "Negative"
           ELSE "Neutral"

(***************************************************************************)
(* Alert Dispatcher.  An alert attempt is one call of sendSmsAlert; it is  *)
(* "skipped" when the guard returns before anything is handed to the       *)
(* provider, otherwise the message is handed over ("inflight") and the     *)
(* provider later resolves ("sent") or rejects ("failed", caught and       *)
(* logged inside sendSmsAlert).                                            *)
(***************************************************************************)
Txt_NA == <<78, 47, 65>>

\* the fields of the message body
smsBody(feedback) ==
  [ source |-> feedback.source,
    severity |-> feedback.severity,
    location |-> feedback.location,
    category |-> feedback.category,
    details |-> IF Truthy(feedback.comment) THEN feedback.comment
                ELSE IF Truthy(feedback.details) THEN feedback.details
                ELSE Txt_NA ]

\* mutant of sendSmsAlert: the caller gets the attempt back only once the
\* provider has answered (the delivery is awaited)
sendSmsAlert_Awaited(feedback) ==
  [ docId |-> feedback._id,
    state |-> IF ~twilioClient \/ ~env["ALERT_PHONE_NUMBER"]
                 \/ ~env["TWILIO_PHONE_NUMBER"]
              THEN "skipped"
              ELSE "sent",
    body |-> smsBody(feedback) ]

\* mutant of sendSmsAlert: the guard does not look at the phone numbers
sendSmsAlert_NoNumberCheck(feedback) ==
  [ docId |-> feedback._id,
    state |-> IF ~twilioClient THEN "skipped" ELSE "inflight",
    body |-> smsBody(feedback) ]

sendSmsAlert(feedback) ==
  [ docId |-> feedback._id,
    state |-> IF ~twilioClient \/ ~env["ALERT_PHONE_NUMBER"]
                 \/ ~env["TWILIO_PHONE_NUMBER"]
              THEN "skipped"
              ELSE "inflight",
    body |-> smsBody(feedback) ]

(***************************************************************************)
(* Contextual negativity cascade.                                          *)
(***************************************************************************)
\* rating <= 2 in JavaScript: undefined <= 2 is false
LE2(r) == r # undefinedNum /\ r <= 2

commentFields ==
  << "checkoutComments", "roomComments", "diningComments",
     "amenityComments", "staffComments", "otherComments" >>

\* the "sentiment" revision calls checkIfNegative without defining it
checkIfNegativeDefined == variant = "keyword"

\* the for loop over commentFields, from field number i on
RECURSIVE scanComments(_, _)
scanComments(feedbackData, i) ==
  IF i > Len(commentFields) THEN "false"
  ELSE IF ~Truthy(feedbackData[commentFields[i]])
       THEN scanComments(feedbackData, i + 1)
  ELSE IF ~checkIfNegativeDefined THEN "ReferenceError"
  ELSE IF checkIfNegative(feedbackData[commentFields[i]]) THEN "true"
  ELSE scanComments(feedbackData, i + 1)

\* "true", "false", or "ReferenceError" when the call throws
determineIsNegative(feedbackData, location) ==
  IF location = "checkout"
     /\ (LE2(feedbackData.checkoutSpeed) \/ LE2(feedbackData.billingAccuracy))
  THEN "true"
  ELSE IF location = "room"
     /\ (LE2(feedbackData.roomCleanliness) \/ LE2(feedbackData.bathroomCleanliness))
  THEN "true"
  ELSE IF location = "dining_table" /\ LE2(feedbackData.foodQuality)
  THEN "true"
  ELSE scanComments(feedbackData, 1)

(***************************************************************************)
(* Requests the model submits.                                             *)
(***************************************************************************)
Txt_Bad == <<66, 97, 100>>            \* "Bad": holds the keyword "bad"
Txt_ok == <<32, 111, 107>>            \* " ok": no keyword, leading blank
Txt_Positive == <<80, 111, 115, 105, 116, 105, 118, 101>>       \* "Positive"
Txt_NEGATIVE == <<78, 69, 71, 65, 84, 73, 86, 69, 10>>          \* "NEGATIVE\n"
Txt_Unsure == <<85, 110, 115, 117, 114, 101>>                   \* "Unsure"

NotCalled == [kind |-> "notcalled", text |-> undefinedStr]

ApiOutcomes ==
  [kind : {"notcalled", "neterr", "status", "badjson"}, text : {undefinedStr}]
  \cup [kind : {"ok"}, text : {undefinedStr, Txt_Positive, Txt_NEGATIVE, Txt_Unsure}]

GuestBodies ==
  [ rating : {1, 5}, comment : {undefinedStr, Txt_Bad},
    roomNumber : {"101"}, language : {"en"} ]

StaffBodies ==
  [ category : {"Room", "Lobby"}, severity : {"Low", "High"},
    location : {"Pool"}, details : {Txt_Bad} ]

NoContext ==
  [present |-> FALSE, loc |-> "undefined", id |-> "undefined",
   token |-> "undefined", guestName |-> "undefined"]

Context(loc) ==
  [present |-> TRUE, loc |-> loc, id |-> "T5",
   token |-> "TEST_TABLET5_TOKEN", guestName |-> "undefined"]

\* feedbackData: the keys of the body other than context, source, feedbackArea
NoFeedbackData ==
  [ checkoutSpeed |-> undefinedNum, billingAccuracy |-> undefinedNum,
    roomCleanliness |-> undefinedNum, bathroomCleanliness |-> undefinedNum,
    foodQuality |-> undefinedNum,
    checkoutComments |-> undefinedStr, roomComments |-> undefinedStr,
    diningComments |-> undefinedStr, amenityComments |-> undefinedStr,
    amenitiesComments |-> undefinedStr, staffComments |-> undefinedStr,
    otherComments |-> undefinedStr ]

ContextualBody(c, s, r, t) ==
  [context |-> c, source |-> s, feedbackArea |-> "undefined",
   feedbackData |-> [NoFeedbackData EXCEPT !.checkoutSpeed = r,
                                           !.diningComments = t]]

\* bodies with a location (a checkout-speed rating of 2 or none, a dining
\* comment with a keyword or none), one body with a rating of 0, one with a
\* source outside the enum, one without context, one with a context
\* without loc, and two bodies whose token is the used one or absent
ContextualBodies ==
  { ContextualBody(Context(l), "undefined", r, t) :
      l \in {"checkout", "dining_table"},
      r \in {undefinedNum, 2}, t \in {undefinedStr, Txt_Bad} }
  \cup { ContextualBody(Context("checkout"), "undefined", 0, undefinedStr),
         ContextualBody(Context("checkout"), "Visitor", 2, undefinedStr),
         ContextualBody(NoContext, "undefined", 2, Txt_Bad),
         ContextualBody(Context("undefined"), "undefined", 2, Txt_Bad) }
  \cup { ContextualBody([Context("checkout") EXCEPT !.token = k],
                        "undefined", undefinedNum, undefinedStr) :
           k \in {"USED_TOKEN", "undefined"} }

\* the store fails (dbOk = FALSE) under one body of each path, a body that
\* the handler classifies negative whenever it classifies
StoreFailureBodies ==
  { [rating |-> 1, comment |-> Txt_Bad, roomNumber |-> "101", language |-> "en"],
    [category |-> "Room", severity |-> "High", location |-> "Pool",
     details |-> Txt_Bad],
    ContextualBody(Context("checkout"), "undefined", 2, undefinedStr) }

(***************************************************************************)
(* JSON web tokens (jsonwebtoken).  A token is its payload, the secret it  *)
(* was signed with, and its iat and exp claims.                            *)
(***************************************************************************)
NoPayload == [id |-> 0, username |-> "undefined", role |-> "undefined"]

\* the token a request does not carry
NoToken == [payload |-> NoPayload, secret |-> "none", iat |-> 0, exp |-> 0]

\* jwt.sign(payload, secret, { expiresIn })
jwtSign(payload, secret, expiresIn) ==
  [payload |-> payload, secret |-> secret, iat |-> now, exp |-> now + expiresIn]

\* mutant of jwtVerify: the signature is checked, the exp claim is not
jwtVerify_IgnoreExpiration(token, secret) == token.secret = secret

\* jwt.verify(token, secret): TRUE when it returns the payload, FALSE when
\* it throws (bad signature, or the clock has reached exp)
jwtVerify(token, secret) == token.secret = secret /\ now < token.exp

NoReq == [path |-> "none", body |-> [none |-> TRUE], api |-> NotCalled, dbOk |-> TRUE]

\* no response yet; also the shape of every response: the status, the
\* keys of the JSON body the handlers send (doc: a feedback record, list:
\* the listing, message, valid, context, token, refreshToken, role, id,
\* username, reply, error), value: the result of a helper called on its
\* own, find: what Feedback.find() did for this request
NoRes ==
  [status |-> 0, doc |-> NoDoc, message |-> "", value |-> "", list |-> <<>>,
   find |-> "none", valid |-> "undefined", context |-> "undefined",
   token |-> NoToken, refreshToken |-> NoToken, role |-> "undefined",
   id |-> 0, username |-> "undefined", reply |-> undefinedStr, error |-> ""]

(***************************************************************************)
(* The handlers of routes/feedback.js.                                     *)
(***************************************************************************)
\* mutant of insert: the document takes the place of the newest record
insert_Replace(doc) ==
  IF store = <<>> THEN <<doc>> ELSE [store EXCEPT ![Len(store)] = doc]

\* newFeedback.save() of a new document: an insert into the collection
insert(doc) == Append(store, doc)

\* mutant of Created: the alert goes out although the record is not stored
Created_AlertUnsaved(newFeedback, classified, alert) ==
  LET savedFeedback == [newFeedback EXCEPT !._id = Len(store) + 1]
  IN  /\ store' = IF alert THEN store ELSE Append(store, savedFeedback)
      /\ negIds' = IF classified THEN negIds \cup {savedFeedback._id} ELSE negIds
      /\ alerts' = IF alert THEN Append(alerts, sendSmsAlert(savedFeedback))
                   ELSE alerts
      /\ res' = [NoRes EXCEPT !.status = IF alert THEN 500 ELSE 201,
                              !.doc = savedFeedback]

\* res.status(201).json(savedFeedback) after a successful save; classified
\* is the negativity decision of the handler, alert its alert condition
Created(newFeedback, classified, alert) ==
  LET savedFeedback == [newFeedback EXCEPT !._id = Len(store) + 1]
  IN  /\ store' = insert(savedFeedback)
      /\ negIds' = IF classified THEN negIds \cup {savedFeedback._id} ELSE negIds
      /\ alerts' = IF alert THEN Append(alerts, sendSmsAlert(savedFeedback))
                   ELSE alerts
      /\ res' = [NoRes EXCEPT !.status = 201, !.doc = savedFeedback]

\* mutant of Rejected: the failure comes after the record was written
Rejected_AfterSave(code, message) ==
  /\ res' = [NoRes EXCEPT !.status = code, !.message = message]
  /\ store' = Append(store, [NoDoc EXCEPT !._id = Len(store) + 1])
  /\ UNCHANGED <<negIds, alerts>>

\* res.status(code).json({ message }) from a catch block or a guard
Rejected(code, message) ==
  /\ res' = [NoRes EXCEPT !.status = code, !.message = message]
  /\ UNCHANGED <<store, negIds, alerts>>

\* mutant of guestAlert: a low rating also raises the alert
guestAlert_LowRating(rating, sentiment, isNegative) ==
  \/ (rating # undefinedNum /\ rating <= 2)
  \/ IF variant = "sentiment" THEN sentiment = "Negative" ELSE isNegative

\* if (sentiment === "Negative") / if (isNegative)
guestAlert(rating, sentiment, isNegative) ==
  IF variant = "sentiment" THEN sentiment = "Negative" ELSE isNegative

\* the handler up to await newFeedback.save(): the document it has
\* built, its negativity decision and its alert condition
guestLocals(body, api) ==
  LET sentiment == IF variant = "sentiment"
                   THEN analyzeSentiment(body.comment, api)
                   ELSE "undefined"
      isNegative == IF variant = "keyword"
                    THEN checkIfNegative(body.comment)
                    ELSE FALSE
      newFeedback ==
        NewFeedback([EmptyData EXCEPT
          !.source = "Guest", !.rating = body.rating,
          !.comment = body.comment, !.roomNumber = body.roomNumber,
          !.language = body.language, !.sentiment = sentiment,
          !.isNegative = IF variant = "sentiment" THEN "undefined"
                         ELSE IF isNegative THEN "true" ELSE "false"])
  IN  [newFeedback |-> newFeedback,
       classified |-> IF variant = "sentiment" THEN sentiment = "Negative"
                      ELSE isNegative,
       alert |-> guestAlert(body.rating, sentiment, isNegative),
       thrown |-> "none"]

\* the handler from the answer of save() on
guestSaved(locals, dbOk) ==
  IF save(locals.newFeedback, dbOk) = "ok"
  THEN Created(locals.newFeedback, locals.classified, locals.alert)
  ELSE Rejected(500, "Server error while saving guest feedback.")

PostGuest ==
  /\ Len(store) < MaxStore
  /\ \E body \in GuestBodies, api \in ApiOutcomes, dbOk \in BOOLEAN :
       /\ dbOk \/ body \in StoreFailureBodies
       /\ (api.kind # "notcalled")
            <=> (variant = "sentiment" /\ Truthy(body.comment) /\ env["GEMINI_API_KEY"])
       /\ req' = [path |-> "guest", body |-> body, api |-> api, dbOk |-> dbOk]
       /\ guestSaved(guestLocals(body, api), dbOk)
  /\ UNCHANGED <<variant, env, authVars, chatVars, flightVars>>

\* mutant of staffAlert: the details text is run through the keyword check
staffAlert_Details(severity, details) ==
  severity = "High" \/ checkIfNegative(details)

\* if (severity === "High") / if (isNegative)
staffAlert(severity, details) == severity = "High"

staffLocals(body) ==
  LET isNegative == body.severity = "High"
      newFeedback ==
        NewFeedback([EmptyData EXCEPT
          !.source = "Staff", !.category = body.category,
          !.severity = body.severity, !.location = body.location,
          !.details = body.details,
          !.isNegative = IF variant = "sentiment" THEN "undefined"
                         ELSE IF isNegative THEN "true" ELSE "false"])
  IN  [newFeedback |-> newFeedback, classified |-> isNegative,
       alert |-> staffAlert(body.severity, body.details), thrown |-> "none"]

staffSaved(locals, dbOk) ==
  IF save(locals.newFeedback, dbOk) = "ok"
  THEN Created(locals.newFeedback, locals.classified, locals.alert)
  ELSE Rejected(500, "Server error while saving staff feedback.")

PostStaff ==
  /\ Len(store) < MaxStore
  /\ \E body \in StaffBodies, dbOk \in BOOLEAN :
       /\ dbOk \/ body \in StoreFailureBodies
       /\ req' = [path |-> "staff", body |-> body, api |-> NotCalled, dbOk |-> dbOk]
       /\ staffSaved(staffLocals(body), dbOk)
  /\ UNCHANGED <<variant, env, authVars, chatVars, flightVars>>

\* a falsy string: absent or empty
Falsy(s) == s = "undefined" \/ s = ""

\* mutant of contextValid: only the presence of the context object is checked
contextValid_ObjectOnly(context) == context.present

\* mutant of contextValid: the token is looked up in validTestTokens too
contextValid_TokenChecked(context) ==
  /\ context.present
  /\ ~Falsy(context.loc)
  /\ context.token \in {"TEST_CHECKOUT_TOKEN_123", "TEST_ROOM101_TOKEN_ABC",
                        "TEST_TABLET5_TOKEN"}

\* !( !context || !context.loc )
contextValid(context) == context.present /\ ~Falsy(context.loc)

\* mutant of contextualAlert: the alert is raised for every saved record
contextualAlert_Always(isNegative) == TRUE

\* if (saveData.isNegative)
contextualAlert(isNegative) == isNegative = "true"

\* thrown: what ends the handler before it calls save(), "none" when
\* nothing does
contextualLocals(body) ==
  LET context == body.context
      feedbackData == body.feedbackData
      isNegative == determineIsNegative(feedbackData, context.loc)
      saveData ==
        [EmptyData EXCEPT
          !.checkoutSpeed = feedbackData.checkoutSpeed,
          !.billingAccuracy = feedbackData.billingAccuracy,
          !.roomCleanliness = feedbackData.roomCleanliness,
          !.bathroomCleanliness = feedbackData.bathroomCleanliness,
          !.foodQuality = feedbackData.foodQuality,
          !.checkoutComments = feedbackData.checkoutComments,
          !.roomComments = feedbackData.roomComments,
          !.diningComments = feedbackData.diningComments,
          !.amenityComments = feedbackData.amenityComments,
          !.amenitiesComments = feedbackData.amenitiesComments,
          !.staffComments = feedbackData.staffComments,
          !.otherComments = feedbackData.otherComments,
          !.source = IF Falsy(body.source) THEN "Guest" ELSE body.source,
          !.feedbackArea = IF Falsy(body.feedbackArea) THEN context.loc
                           ELSE body.feedbackArea,
          !.contextLoc = context.loc,
          !.contextId = context.id,
          !.contextToken = context.token,
          !.contextGuestName = context.guestName,
          !.isNegative = isNegative]
  IN  IF ~contextValid(context)
      THEN [newFeedback |-> NoDoc, classified |-> FALSE, alert |-> FALSE,
            thrown |-> "context"]
      ELSE IF isNegative = "ReferenceError"
      THEN [newFeedback |-> NoDoc, classified |-> FALSE, alert |-> FALSE,
            thrown |-> "ReferenceError"]
      ELSE [newFeedback |-> NewFeedback(saveData),
            classified |-> isNegative = "true",
            alert |-> contextualAlert(isNegative), thrown |-> "none"]

\* the 400 of the guard and the catch block for what is thrown before save()
contextualThrown(locals) ==
  IF locals.thrown = "context"
  THEN Rejected(400, "Feedback context (location) is required.")
  ELSE Rejected(500, "Server error while saving feedback.")

contextualSaved(locals, dbOk) ==
  LET error == save(locals.newFeedback, dbOk)
  IN  IF error = "ValidationError"
      THEN Rejected(400, "Validation Failed")
      ELSE IF error # "ok"
      THEN Rejected(500, "Server error while saving feedback.")
      ELSE Created(locals.newFeedback, locals.classified, locals.alert)

PostContextual ==
  /\ Len(store) < MaxStore
  /\ \E body \in ContextualBodies, dbOk \in BOOLEAN :
       /\ dbOk \/ body \in StoreFailureBodies
       /\ req' = [path |-> "contextual", body |-> body, api |-> NotCalled, dbOk |-> dbOk]
       /\ IF contextualLocals(body).thrown # "none"
          THEN contextualThrown(contextualLocals(body))
          ELSE contextualSaved(contextualLocals(body), dbOk)
  /\ UNCHANGED <<variant, env, authVars, chatVars, flightVars>>

\* the provider resolves messages.create: "SMS Sent successfully"
TwilioResolve ==
  /\ \E i \in DOMAIN alerts :
       /\ alerts[i].state = "inflight"
       /\ alerts' = [alerts EXCEPT ![i].state = "sent"]
  /\ UNCHANGED <<variant, env, store, negIds, req, res, authVars, chatVars, flightVars>>

\* the provider rejects messages.create: caught and logged in sendSmsAlert
TwilioReject ==
  /\ \E i \in DOMAIN alerts :
       /\ alerts[i].state = "inflight"
       /\ alerts' = [alerts EXCEPT ![i].state = "failed"]
  /\ UNCHANGED <<variant, env, store, negIds, req, res, authVars, chatVars, flightVars>>

Init ==
  /\ variant \in Variants
  /\ env \in Envs
  /\ store = <<>>
  /\ negIds = {}
  /\ alerts = <<>>
  /\ req = NoReq
  /\ res = NoRes
  /\ now = 0
  /\ users = {}
  /\ refreshTokens = <<>>
  /\ Idle

Next ==
  \/ PostGuest
  \/ PostStaff
  \/ PostContextual
  \/ TwilioResolve
  \/ TwilioReject

Spec == Init /\ [][Next]_vars

(***************************************************************************)
(* The keyword classifier on its own: every comment over Alphabet of at    *)
(* most MaxCommentLen code units, and the absent comment.                  *)
(***************************************************************************)
\* A B D a b d, blank, and the two syllables of the Amharic keyword 4669 4723
Alphabet == {65, 66, 68, 97, 98, 100, 32, 4669, 4723}

Comments == UNION {[1..n -> Alphabet] : n \in 0..MaxCommentLen}

InitKeyword ==
  /\ variant = "keyword"
  /\ env = AllSet
  /\ store = <<>>
  /\ negIds = {}
  /\ alerts = <<>>
  /\ req \in {[path |-> "checkIfNegative", body |-> [comment |-> c],
               api |-> NotCalled, dbOk |-> TRUE] :
                c \in Comments \cup {undefinedStr}}
  /\ res = NoRes
  /\ now = 0
  /\ users = {}
  /\ refreshTokens = <<>>
  /\ Idle

CallCheckIfNegative ==
  /\ req.path = "checkIfNegative"
  /\ res = NoRes
  /\ res' = [NoRes EXCEPT
               !.value = IF checkIfNegative(req.body.comment) THEN "true" ELSE "false"]
  /\ UNCHANGED <<variant, env, store, negIds, alerts, req, authVars, chatVars, flightVars>>

NextKeyword == CallCheckIfNegative

SpecKeyword == InitKeyword /\ [][NextKeyword]_vars

(***************************************************************************)
(* The cascade on its own: every location, every combination of the five   *)
(* ratings over absent and 2..MaxRatingIn, and at most MaxCommentFields     *)
(* comment fields present.                                                  *)
(***************************************************************************)
RatingIns == {undefinedNum} \cup (2..MaxRatingIn)

CommentNames ==
  {"checkoutComments", "roomComments", "diningComments", "amenityComments",
   "amenitiesComments", "staffComments", "otherComments"}

CommentIns == {<<>>, Txt_Bad, Txt_ok}

RatingData ==
  { [NoFeedbackData EXCEPT !.checkoutSpeed = a, !.billingAccuracy = b,
                           !.roomCleanliness = c, !.bathroomCleanliness = d,
                           !.foodQuality = e] :
      a \in RatingIns, b \in RatingIns, c \in RatingIns,
      d \in RatingIns, e \in RatingIns }

CommentChoices ==
  UNION { [F -> CommentIns] :
            F \in {G \in SUBSET CommentNames : Cardinality(G) <= MaxCommentFields} }

\* the feedbackData carrying the ratings of r and the comment fields of g
CascadeData(r, g) == [k \in DOMAIN r |-> IF k \in DOMAIN g THEN g[k] ELSE r[k]]

Locations == {"checkout", "room", "dining_table", "pool"}

InitCascade ==
  /\ variant \in Variants
  /\ env = AllSet
  /\ store = <<>>
  /\ negIds = {}
  /\ alerts = <<>>
  /\ req \in {[path |-> "determineIsNegative",
               body |-> [feedbackData |-> CascadeData(r, g), loc |-> l],
               api |-> NotCalled, dbOk |-> TRUE] :
                r \in RatingData, g \in CommentChoices, l \in Locations}
  /\ res = NoRes
  /\ now = 0
  /\ users = {}
  /\ refreshTokens = <<>>
  /\ Idle

CallDetermineIsNegative ==
  /\ req.path = "determineIsNegative"
  /\ res = NoRes
  /\ res' = [NoRes EXCEPT
               !.value = determineIsNegative(req.body.feedbackData, req.body.loc)]
  /\ UNCHANGED <<variant, env, store, negIds, alerts, req, authVars, chatVars, flightVars>>

NextCascade == CallDetermineIsNegative

SpecCascade == InitCascade /\ [][NextCascade]_vars

(***************************************************************************)
(* The clock.  now counts hours; it moves between the instants that the    *)
(* lifetime of a refresh token tells apart.                                *)
(***************************************************************************)
\* jwt.sign(..., { expiresIn: '1h' })
AccessTtl == 1
\* jwt.sign(..., { expiresIn: '7d' }) and expires.setDate(expires.getDate() + 7)
RefreshTtl == 168

\* the start of a refresh lifetime, and the hour after the end of one
Instants ==
  {t \in 0..MaxClock :
     t % RefreshTtl = 0 \/ (t > RefreshTtl /\ t % RefreshTtl = AccessTtl)}

Tick ==
  /\ \E t \in Instants : t > now /\ now' = t
  /\ UNCHANGED <<variant, env, store, negIds, alerts, req, res, users, refreshTokens, chatVars, flightVars>>

(***************************************************************************)
(* middleware/auth.js                                                      *)
(***************************************************************************)
\* the Authorization headers the model sends: none, a scheme without a
\* token, and a bearer token for an admin or a staff user that was signed
\* now or one lifetime ago with the access secret, the refresh secret or a
\* secret the server does not know
AuthHeaders ==
  { [kind |-> "absent", token |-> NoToken],
    [kind |-> "schemeOnly", token |-> NoToken] }
  \cup { [kind |-> "bearer",
          token |-> [payload |-> [id |-> 1, username |-> "ann", role |-> r],
                     secret |-> k, iat |-> t, exp |-> t + AccessTtl]] :
           r \in {"admin", "staff"},
           k \in {"JWT_SECRET", "JWT_REFRESH_SECRET", "unknown"},
           t \in {now - AccessTtl, now} }

\* authenticate: status 0 stands for next(), with req.user = user
authenticate(authHeader) ==
  IF authHeader.kind = "absent"
  THEN [status |-> 401, message |-> "Authorization header missing", user |-> NoPayload]
  ELSE IF authHeader.kind = "schemeOnly"
  THEN [status |-> 401, message |-> "Token missing", user |-> NoPayload]
  ELSE IF jwtVerify(authHeader.token, "JWT_SECRET")
  THEN [status |-> 0, message |-> "", user |-> authHeader.token.payload]
  ELSE [status |-> 401, message |-> "Invalid token", user |-> NoPayload]

\* mutant of authorizeAdmin: any decoded user passes
authorizeAdmin_AnyRole(user) == user # NoPayload

\* authorizeAdmin: req.user && req.user.role === "admin"
authorizeAdmin(user) == user # NoPayload /\ user.role = "admin"

(***************************************************************************)
(* GET /api/feedback and GET /api/feedback/validate-token                  *)
(***************************************************************************)
Orders(n) ==
  {p \in [1..n -> 1..n] : \A i, j \in 1..n : i # j => p[i] # p[j]}

\* mutant of findSorted: the records in insertion order
findSorted_Unsorted(st) == {st}

\* Feedback.find().sort({ timestamp: -1 }): the records by descending
\* timestamp; records with equal timestamps come in any order
findSorted(st) ==
  { [i \in 1..Len(st) |-> st[p[i]]] :
      p \in {q \in Orders(Len(st)) :
               \A i \in 1..(Len(st) - 1) :
                 st[q[i]].timestamp >= st[q[i + 1]].timestamp} }

\* the route's middleware: authenticate, authorizeAdmin in the revision
\* that requires them, none in the other
guarded == variant = "sentiment"

GetFeedback ==
  /\ \E authHeader \in AuthHeaders :
       LET a == authenticate(authHeader)
           request(dbOk) == [path |-> "list", body |-> [authorization |-> authHeader],
                             api |-> NotCalled, dbOk |-> dbOk]
       IN  IF guarded /\ a.status # 0
           THEN /\ req' = request(TRUE)
                /\ res' = [NoRes EXCEPT !.status = a.status, !.message = a.message]
           ELSE IF guarded /\ ~authorizeAdmin(a.user)
           THEN /\ req' = request(TRUE)
                /\ res' = [NoRes EXCEPT !.status = 403,
                             !.message = "Forbidden: Admins only"]
           ELSE \/ /\ req' = request(FALSE)
                   /\ res' = [NoRes EXCEPT !.status = 500, !.find = "error",
                                !.message = "Server error while fetching feedback."]
                \/ \E feedbackList \in findSorted(store) :
                     /\ req' = request(TRUE)
                     /\ res' = [NoRes EXCEPT !.status = 200, !.find = "ok",
                                  !.list = feedbackList]
  /\ UNCHANGED <<variant, env, store, negIds, alerts, authVars, chatVars, flightVars>>

\* const validTestTokens = { ... }
validTestTokens ==
  [ TEST_CHECKOUT_TOKEN_123 |-> [valid |-> "true", context |-> "{}",
                                 message |-> ""],
    TEST_ROOM101_TOKEN_ABC |-> [valid |-> "true", context |-> "{room: 101}",
                                message |-> ""],
    TEST_TABLET5_TOKEN |-> [valid |-> "true", context |-> "{table: T5}",
                            message |-> ""],
    USED_TOKEN |-> [valid |-> "false", context |-> "undefined",
                    message |-> "This feedback link has already been used."] ]

\* keys every object literal inherits from Object.prototype: looked up with
\* [], they yield a function, which is truthy and which res.json sends as
\* an empty body
InheritedKeys == {"constructor", "toString"}

\* the tok query parameters the model sends
TokIns ==
  {"undefined", "", "TEST_TABLET5_TOKEN", "TEST_CHECKOUT_TOKEN_123",
   "USED_TOKEN", "NOPE", "constructor"}

ValidateToken ==
  /\ \E token \in TokIns :
       /\ req' = [path |-> "validate-token", body |-> [tok |-> token],
                  api |-> NotCalled, dbOk |-> TRUE]
       /\ res' =
            IF Falsy(token)
            THEN [NoRes EXCEPT !.status = 400, !.valid = "false",
                    !.message = "Token is required for validation."]
            ELSE IF token \in DOMAIN validTestTokens
            THEN [NoRes EXCEPT !.status = 200,
                    !.valid = validTestTokens[token].valid,
                    !.context = validTestTokens[token].context,
                    !.message = validTestTokens[token].message]
            ELSE IF token \in InheritedKeys
            THEN [NoRes EXCEPT !.status = 200]
            ELSE [NoRes EXCEPT !.status = 404, !.valid = "false",
                    !.message = "Feedback session not found or expired."]
  /\ UNCHANGED <<variant, env, store, negIds, alerts, authVars, chatVars, flightVars>>

(***************************************************************************)
(* The feedback router with its listing, its token validation and the      *)
(* clock: every variable of the environment set, the clock at a stand.     *)
(***************************************************************************)
InitFeedback ==
  /\ variant \in Variants
  /\ env = AllSet
  /\ store = <<>>
  /\ negIds = {}
  /\ alerts = <<>>
  /\ req = NoReq
  /\ res = NoRes
  /\ now = 0
  /\ users = {}
  /\ refreshTokens = <<>>
  /\ Idle

NextFeedback ==
  \/ PostGuest
  \/ PostStaff
  \/ PostContextual
  \/ GetFeedback
  \/ ValidateToken

SpecFeedback == InitFeedback /\ [][NextFeedback]_vars

\* the listing of records that were created at different times
NextListing ==
  \/ PostStaff
  \/ Tick
  \/ GetFeedback

SpecListing == InitFeedback /\ [][NextListing]_vars

(***************************************************************************)
(* routes/auth.js: register, login, refresh.  users is the User            *)
(* collection, refreshTokens the RefreshToken collection in insertion      *)
(* order.                                                                  *)
(***************************************************************************)
RegisterBodies ==
  { [username |-> "ann", password |-> "pw", role |-> "admin"],
    [username |-> "bob", password |-> "pw", role |-> "staff"],
    [username |-> "ann", password |-> "pw2", role |-> "staff"],
    [username |-> "cat", password |-> "", role |-> "staff"],
    [username |-> "cat", password |-> "pw", role |-> "guest"] }

LoginBodies ==
  [username : {"ann", "bob"}, password : {"pw", "bad"}]

\* User.findOne(query): a user that matches, or NoUser
NoUser == [_id |-> 0, username |-> "undefined", password |-> "undefined",
           role |-> "undefined"]

findOneUser(matching) ==
  IF matching # {} THEN CHOOSE u \in matching : TRUE ELSE NoUser

\* the response of the auth router: res.status(code).json({ message })
AuthRejected(code, message) ==
  res' = [NoRes EXCEPT !.status = code, !.message = message]

Register ==
  /\ \E body \in RegisterBodies, dbOk \in BOOLEAN :
       LET username == body.username
           password == body.password
           role == body.role
           existingUser == findOneUser({u \in users : u.username = username})
           savedUser == [_id |-> Cardinality(users) + 1, username |-> username,
                         password |-> password, role |-> role]
       IN  /\ req' = [path |-> "register", body |-> body, api |-> NotCalled,
                      dbOk |-> dbOk]
           /\ IF Falsy(username) \/ Falsy(password) \/ Falsy(role)
              THEN /\ AuthRejected(400, "Username, password, and role are required.")
                   /\ users' = users
              ELSE IF role \notin {"admin", "staff"}
              THEN /\ AuthRejected(400, "Role must be either 'admin' or 'staff'.")
                   /\ users' = users
              ELSE IF ~dbOk
              THEN /\ AuthRejected(500, "Server error during registration.")
                   /\ users' = users
              ELSE IF existingUser # NoUser
              THEN /\ AuthRejected(400, "Username already exists.")
                   /\ users' = users
              ELSE /\ Cardinality(users) < MaxUsers
                   /\ users' = users \cup {savedUser}
                   /\ res' = [NoRes EXCEPT !.status = 201, !.id = savedUser._id,
                                !.username = savedUser.username,
                                !.role = savedUser.role]
  /\ UNCHANGED <<variant, env, store, negIds, alerts, now, refreshTokens, chatVars, flightVars>>

\* await new RefreshToken({ token, user, expires }).save(), inside
\* if (foundUser)
issueRefreshToken(foundUser, refreshToken) ==
  IF foundUser # NoUser
  THEN Append(refreshTokens,
              [token |-> refreshToken, user |-> foundUser._id,
               expires |-> now + RefreshTtl])
  ELSE refreshTokens

Login ==
  /\ \E body \in LoginBodies, dbOk \in BOOLEAN :
       LET foundUser ==
             findOneUser({u \in users : /\ u.username = body.username
                                        /\ u.password = body.password})
           payload == [id |-> foundUser._id, username |-> foundUser.username,
                       role |-> foundUser.role]
           token == jwtSign(payload, "JWT_SECRET", AccessTtl)
           refreshToken == jwtSign(payload, "JWT_REFRESH_SECRET", RefreshTtl)
       IN  /\ req' = [path |-> "login", body |-> body, api |-> NotCalled,
                      dbOk |-> dbOk]
           /\ IF ~dbOk
              THEN /\ AuthRejected(500, "Server error during login.")
                   /\ refreshTokens' = refreshTokens
              ELSE /\ Len(issueRefreshToken(foundUser, refreshToken)) <= MaxRefreshTokens
                   /\ refreshTokens' = issueRefreshToken(foundUser, refreshToken)
                   /\ IF foundUser # NoUser
                      THEN res' = [NoRes EXCEPT !.status = 200, !.token = token,
                                     !.refreshToken = refreshToken,
                                     !.role = foundUser.role]
                      ELSE AuthRejected(401, "Invalid credentials")
  /\ UNCHANGED <<variant, env, store, negIds, alerts, now, users, chatVars, flightVars>>

\* the refreshToken values the model sends: none, and for every user and
\* every instant up to now the token a login would have signed then, and
\* the same claims signed with a secret the server does not know
RefreshIns ==
  {NoToken}
  \cup { [payload |-> [id |-> u._id, username |-> u.username, role |-> u.role],
          secret |-> k, iat |-> t, exp |-> t + RefreshTtl] :
           u \in users, k \in {"JWT_REFRESH_SECRET", "unknown"},
           t \in {i \in Instants : i <= now} }

\* RefreshToken.findOne({ token }): the position of the first record that
\* holds the token, 0 when there is none
findOneToken(token) ==
  IF \E i \in DOMAIN refreshTokens : refreshTokens[i].token = token
  THEN CHOOSE i \in DOMAIN refreshTokens :
         /\ refreshTokens[i].token = token
         /\ \A j \in 1..(i - 1) : refreshTokens[j].token # token
  ELSE 0

\* storedToken.remove()
remove(i) ==
  [n \in 1..(Len(refreshTokens) - 1) |->
     IF n < i THEN refreshTokens[n] ELSE refreshTokens[n + 1]]

\* storedToken.expires < new Date()
expired(storedToken) == storedToken.expires < now

\* mutant of rotate: a successful refresh removes the record it used
rotate_Remove(i) == remove(i)

\* a successful refresh leaves the collection as it is
rotate(i) == refreshTokens

Refresh ==
  /\ \E refreshToken \in RefreshIns, dbOk \in BOOLEAN :
       LET i == findOneToken(refreshToken)
           decoded == refreshToken.payload
           payload == [id |-> decoded.id, username |-> decoded.username,
                       role |-> decoded.role]
           newAccessToken == jwtSign(payload, "JWT_SECRET", AccessTtl)
       IN  /\ req' = [path |-> "refresh", body |-> [refreshToken |-> refreshToken],
                      api |-> NotCalled, dbOk |-> dbOk]
           /\ IF refreshToken = NoToken
              THEN /\ AuthRejected(400, "Refresh token missing")
                   /\ refreshTokens' = refreshTokens
              ELSE IF ~dbOk
              THEN /\ AuthRejected(500, "Server error during refresh token processing.")
                   /\ refreshTokens' = refreshTokens
              ELSE IF i = 0
              THEN /\ AuthRejected(401, "Invalid refresh token")
                   /\ refreshTokens' = refreshTokens
              ELSE IF expired(refreshTokens[i])
              THEN /\ AuthRejected(401, "Refresh token expired")
                   /\ refreshTokens' = remove(i)
              ELSE IF ~jwtVerify(refreshToken, "JWT_REFRESH_SECRET")
              THEN /\ AuthRejected(401, "Invalid refresh token")
                   /\ refreshTokens' = refreshTokens
              ELSE /\ res' = [NoRes EXCEPT !.status = 200, !.token = newAccessToken]
                   /\ refreshTokens' = rotate(i)
  /\ UNCHANGED <<variant, env, store, negIds, alerts, now, users, chatVars, flightVars>>

InitAuth ==
  /\ variant = "sentiment"
  /\ env = AllSet
  /\ store = <<>>
  /\ negIds = {}
  /\ alerts = <<>>
  /\ req = NoReq
  /\ res = NoRes
  /\ now = 0
  /\ users = {}
  /\ refreshTokens = <<>>
  /\ Idle

NextAuth ==
  \/ Register
  \/ Login
  \/ Refresh
  \/ Tick

SpecAuth == InitAuth /\ [][NextAuth]_vars

(***************************************************************************)
(* routes/chat.js: POST /message.  The handler runs up to its first await  *)
(* when the message arrives (ChatMessage) and from the answer of the AI    *)
(* service to its response (ChatReply); handlers of other messages run in  *)
(* between.  chatHistoryStore maps a session to the array it refers to (0: *)
(* no such key), arrays holds the arrays that the store or a waiting       *)
(* handler refers to.  The n-th message a client sends is the n-th small   *)
(* letter and is answered with the n-th capital, so that exchanges can be  *)
(* told apart.                                                             *)
(***************************************************************************)
MAX_HISTORY_LENGTH == 10

\* the exchanges that "10.0.0.1" has completed, one after the other, when
\* the model starts: its history is full
PriorExchanges == MAX_HISTORY_LENGTH

Letter(n) == 96 + n
Capital(n) == 64 + n

\* < > { }
Stripped == {60, 62, 123, 125}

\* mutant of sanitizeInput: nothing is stripped
sanitizeInput_Keep(text) ==
  IF ~Truthy(text) THEN <<>> ELSE text

\* if (!text) return ""; return text.replace(/[<>{}]/g, "")
sanitizeInput(text) ==
  IF ~Truthy(text) THEN <<>> ELSE SelectSeq(text, LAMBDA c : c \notin Stripped)

\* req.body.message of the n-th message: absent, "<>", "<x>"
Messages(n) == {undefinedStr, <<60, 62>>, <<60, Letter(n), 62>>}

\* req.ip
Addresses == {"10.0.0.1", "undefined"}

\* { role: "user", text: userInput }, { role: "model", text: botText }
pair(userInput, botText) ==
  << [role |-> "user", text |-> userInput],
     [role |-> "model", text |-> botText] >>

PriorPairs == [n \in 1..PriorExchanges |-> pair(<<Letter(n)>>, <<Capital(n)>>)]

PriorHistory ==
  [i \in 1..(2 * PriorExchanges) |-> PriorPairs[(i + 1) \div 2][2 - (i % 2)]]

\* what fetch(API_ENDPOINT) and apiResponse.json() do for the n-th message:
\* fetch or json() rejects, a response that is not ok (errorBody may name
\* SAFETY), an ok response without candidates, with an empty text, with text
Upstream(n) ==
  { [kind |-> "reject", status |-> 0, safety |-> FALSE, text |-> undefinedStr] }
  \cup { [kind |-> "response", status |-> st, safety |-> FALSE, text |-> undefinedStr] :
           st \in {400, 404, 429, 500} }
  \cup { [kind |-> "response", status |-> 400, safety |-> TRUE, text |-> undefinedStr] }
  \cup { [kind |-> "response", status |-> 200, safety |-> FALSE, text |-> t] :
           t \in {undefinedStr, <<>>, <<Capital(n)>>} }

\* apiResponse.ok
ok(up) == up.status >= 200 /\ up.status <= 299

\* the message of the Error thrown for a response that is not ok
userMessage(up) ==
  IF up.safety
  THEN "Sorry, the request or response was blocked for safety reasons."
  ELSE IF up.status = 404 THEN "Sorry, the requested AI model was not found."
  ELSE IF up.status = 429
  THEN "Sorry, the chat service is busy. Please try again shortly."
  ELSE IF up.status = 400 THEN "Sorry, there was an issue with the request format."
  ELSE "Sorry, the AI service returned an error."

\* array.slice(-n)
slice(array, n) ==
  IF Len(array) <= n THEN array
  ELSE SubSeq(array, Len(array) - n + 1, Len(array))

\* the arrays that can still be reached
reachable(historyStore, handlers, heap) ==
  LET refs == ({historyStore[s] : s \in Sessions}
                 \cup {p.currentHistory : p \in handlers}) \ {0}
  IN  [i \in refs |-> heap[i]]

\* a new array
allocate(heap) ==
  CHOOSE i \in 1..(Cardinality(DOMAIN heap) + 1) :
    i \notin DOMAIN heap /\ \A j \in 1..(i - 1) : j \in DOMAIN heap

\* res.status(code).json({ error })
ChatRejected(code, error) ==
  res' = [NoRes EXCEPT !.status = code, !.error = error]

ChatMessage ==
  /\ asked < PriorExchanges + MaxChats
  /\ \E ip \in Addresses, message \in Messages(asked + 1) :
       LET rawUserInput == message
           sessionId == IF Falsy(ip) THEN "default-session" ELSE ip
           userInput == sanitizeInput(rawUserInput)
           absent == chatHistoryStore[sessionId] = 0
           currentHistory == IF absent THEN allocate(arrays)
                             ELSE chatHistoryStore[sessionId]
       IN  /\ req' = [path |-> "chat", body |-> [ip |-> ip, message |-> message],
                      api |-> NotCalled, dbOk |-> TRUE]
           /\ asked' = asked + 1
           /\ IF ~env["GEMINI_API_KEY"]
              THEN /\ ChatRejected(503, "Chat service API key not configured.")
                   /\ UNCHANGED <<chatHistoryStore, arrays, chatting>>
              ELSE IF ~Truthy(userInput)
              THEN /\ ChatRejected(400, "Message cannot be empty.")
                   /\ UNCHANGED <<chatHistoryStore, arrays, chatting>>
              ELSE /\ Cardinality(chatting) < MaxInFlight
                   /\ chatHistoryStore' =
                        [chatHistoryStore EXCEPT ![sessionId] = currentHistory]
                   /\ arrays' = [i \in DOMAIN arrays \cup {currentHistory} |->
                                   IF i \in DOMAIN arrays THEN arrays[i] ELSE <<>>]
                   /\ chatting' = chatting \cup
                        {[n |-> asked + 1, ip |-> ip, message |-> message,
                          sessionId |-> sessionId, userInput |-> userInput,
                          currentHistory |-> currentHistory]}
                   /\ res' = NoRes
  /\ UNCHANGED <<variant, env, store, negIds, alerts, authVars, exchanges,
                 flightVars>>

ChatReply ==
  /\ \E p \in chatting : \E up \in Upstream(p.n) :
       LET botText == up.text
           pushed == arrays[p.currentHistory] \o pair(p.userInput, botText)
           copy == allocate(arrays)
           trims == Len(pushed) > MAX_HISTORY_LENGTH * 2
           historyStore == IF trims
                           THEN [chatHistoryStore EXCEPT ![p.sessionId] = copy]
                           ELSE chatHistoryStore
           heap == [i \in DOMAIN arrays \cup (IF trims THEN {copy} ELSE {}) |->
                      IF i = p.currentHistory THEN pushed
                      ELSE IF i \in DOMAIN arrays THEN arrays[i]
                      ELSE slice(pushed, MAX_HISTORY_LENGTH * 2)]
       IN  /\ req' = [path |-> "chat", body |-> [ip |-> p.ip, message |-> p.message],
                      api |-> up, dbOk |-> TRUE]
           /\ chatting' = chatting \ {p}
           /\ IF up.kind = "reject"
              THEN /\ ChatRejected(500, "fetch failed")
                   /\ chatHistoryStore' = chatHistoryStore
                   /\ arrays' = reachable(chatHistoryStore, chatting', arrays)
                   /\ exchanges' = exchanges
              ELSE IF ~ok(up)
              THEN /\ ChatRejected(500, userMessage(up))
                   /\ chatHistoryStore' = chatHistoryStore
                   /\ arrays' = reachable(chatHistoryStore, chatting', arrays)
                   /\ exchanges' = exchanges
              ELSE IF ~Truthy(botText)
              THEN /\ ChatRejected(500, "Received an unexpected response format from the AI.")
                   /\ chatHistoryStore' = chatHistoryStore
                   /\ arrays' = reachable(chatHistoryStore, chatting', arrays)
                   /\ exchanges' = exchanges
              ELSE /\ chatHistoryStore' = historyStore
                   /\ arrays' = reachable(historyStore, chatting', heap)
                   /\ exchanges' =
                        [exchanges EXCEPT ![p.sessionId] =
                           slice(@ \o <<pair(p.userInput, botText)>>,
                                 MAX_HISTORY_LENGTH)]
                   /\ res' = [NoRes EXCEPT !.status = 200, !.reply = botText]
  /\ UNCHANGED <<variant, env, store, negIds, alerts, authVars, asked, flightVars>>

InitChat ==
  /\ variant = "sentiment"
  /\ env \in {AllSet, [AllSet EXCEPT !["GEMINI_API_KEY"] = FALSE]}
  /\ store = <<>>
  /\ negIds = {}
  /\ alerts = <<>>
  /\ req = NoReq
  /\ res = NoRes
  /\ now = 0
  /\ users = {}
  /\ refreshTokens = <<>>
  /\ chatHistoryStore = [s \in Sessions |-> IF s = "10.0.0.1" THEN 1 ELSE 0]
  /\ arrays = [i \in {1} |-> PriorHistory]
  /\ chatting = {}
  /\ exchanges = [s \in Sessions |-> IF s = "10.0.0.1" THEN PriorPairs ELSE <<>>]
  /\ asked = PriorExchanges
  /\ registering = {}
  /\ submitting = {}

NextChat ==
  \/ ChatMessage
  \/ ChatReply

SpecChat == InitChat /\ [][NextChat]_vars

(***************************************************************************)
(* POST /register with its awaits: the handler runs up to the answer of    *)
(* User.findOne when the request arrives (RegisterFind) and from there to  *)
(* its response (RegisterSave); other handlers run in between.  The User   *)
(* collection has the unique index that the schema declares on username.   *)
(***************************************************************************)
\* a place among the waiting handlers
slot(handlers) ==
  CHOOSE k \in 1..(Cardinality(handlers) + 1) : \A h \in handlers : h.slot # k

RegisterFind ==
  /\ \E body \in RegisterBodies, dbOk \in BOOLEAN :
       LET username == body.username
           password == body.password
           role == body.role
           existingUser == findOneUser({u \in users : u.username = username})
       IN  /\ req' = [path |-> "register", body |-> body, api |-> NotCalled,
                      dbOk |-> dbOk]
           /\ IF Falsy(username) \/ Falsy(password) \/ Falsy(role)
              THEN /\ AuthRejected(400, "Username, password, and role are required.")
                   /\ registering' = registering
              ELSE IF role \notin {"admin", "staff"}
              THEN /\ AuthRejected(400, "Role must be either 'admin' or 'staff'.")
                   /\ registering' = registering
              ELSE IF ~dbOk
              THEN /\ AuthRejected(500, "Server error during registration.")
                   /\ registering' = registering
              ELSE /\ Cardinality(registering) < MaxInFlight
                   /\ registering' = registering \cup
                        {[slot |-> slot(registering), body |-> body,
                          existingUser |-> existingUser]}
                   /\ res' = NoRes
  /\ UNCHANGED <<variant, env, store, negIds, alerts, authVars, chatVars,
                 submitting>>

\* E11000: the unique index on username rejects the insert
duplicateKey(username) == \E u \in users : u.username = username

RegisterSave ==
  /\ \E h \in registering, dbOk \in BOOLEAN :
       LET savedUser == [_id |-> Cardinality(users) + 1,
                         username |-> h.body.username,
                         password |-> h.body.password, role |-> h.body.role]
       IN  /\ req' = [path |-> "register", body |-> h.body, api |-> NotCalled,
                      dbOk |-> dbOk]
           /\ registering' = registering \ {h}
           /\ IF h.existingUser # NoUser
              THEN /\ AuthRejected(400, "Username already exists.")
                   /\ users' = users
              ELSE IF ~dbOk \/ duplicateKey(savedUser.username)
              THEN /\ AuthRejected(500, "Server error during registration.")
                   /\ users' = users
              ELSE /\ Cardinality(users) < MaxUsers
                   /\ users' = users \cup {savedUser}
                   /\ res' = [NoRes EXCEPT !.status = 201, !.id = savedUser._id,
                                !.username = savedUser.username,
                                !.role = savedUser.role]
  /\ UNCHANGED <<variant, env, store, negIds, alerts, now, refreshTokens,
                 chatVars, submitting>>

NextRegister ==
  \/ RegisterFind
  \/ RegisterSave

SpecRegister == InitAuth /\ [][NextRegister]_vars

(***************************************************************************)
(* The submission handlers with their awaits: a handler runs up to         *)
(* await newFeedback.save() when its request arrives and from the answer   *)
(* of the store to its response (SubmissionSaved); other handlers run in   *)
(* between.                                                                *)
(***************************************************************************)
\* room for one more waiting handler and for its record
Admits ==
  /\ Cardinality(submitting) < MaxInFlight
  /\ Len(store) + Cardinality(submitting) < MaxStore

\* the handler waits for the store
awaitSave(path, body, api, locals) ==
  /\ submitting' = submitting \cup
       {[slot |-> slot(submitting), path |-> path, body |-> body, api |-> api,
         locals |-> locals]}
  /\ res' = NoRes
  /\ UNCHANGED <<store, negIds, alerts>>

GuestArrives ==
  /\ Admits
  /\ \E body \in GuestBodies, api \in ApiOutcomes :
       /\ (api.kind # "notcalled")
            <=> (variant = "sentiment" /\ Truthy(body.comment) /\ env["GEMINI_API_KEY"])
       /\ req' = [path |-> "guest", body |-> body, api |-> api, dbOk |-> TRUE]
       /\ awaitSave("guest", body, api, guestLocals(body, api))
  /\ UNCHANGED <<variant, env, authVars, chatVars, registering>>

StaffArrives ==
  /\ Admits
  /\ \E body \in StaffBodies :
       /\ req' = [path |-> "staff", body |-> body, api |-> NotCalled, dbOk |-> TRUE]
       /\ awaitSave("staff", body, NotCalled, staffLocals(body))
  /\ UNCHANGED <<variant, env, authVars, chatVars, registering>>

ContextualArrives ==
  /\ Admits
  /\ \E body \in ContextualBodies :
       /\ req' = [path |-> "contextual", body |-> body, api |-> NotCalled,
                  dbOk |-> TRUE]
       /\ IF contextualLocals(body).thrown # "none"
          THEN /\ contextualThrown(contextualLocals(body))
               /\ submitting' = submitting
          ELSE awaitSave("contextual", body, NotCalled, contextualLocals(body))
  /\ UNCHANGED <<variant, env, authVars, chatVars, registering>>

\* mutant of closure: the handlers keep their variables at module level,
\* where the request that arrived last has overwritten them
closure_Shared(h) ==
  (CHOOSE g \in submitting : \A k \in submitting : g.slot >= k.slot).locals

\* const newFeedback, isNegative, ... of the handler's own call
closure(h) == h.locals

SubmissionSaved ==
  /\ \E h \in submitting, dbOk \in BOOLEAN :
       /\ dbOk \/ h.body \in StoreFailureBodies
       /\ req' = [path |-> h.path, body |-> h.body, api |-> h.api, dbOk |-> dbOk]
       /\ submitting' = submitting \ {h}
       /\ IF h.path = "guest" THEN guestSaved(closure(h), dbOk)
          ELSE IF h.path = "staff" THEN staffSaved(closure(h), dbOk)
          ELSE contextualSaved(closure(h), dbOk)
  /\ UNCHANGED <<variant, env, authVars, chatVars, registering>>

NextSubmissions ==
  \/ GuestArrives
  \/ StaffArrives
  \/ ContextualArrives
  \/ SubmissionSaved

SpecSubmissions == InitFeedback /\ [][NextSubmissions]_vars

(***************************************************************************)
(* Every endpoint on a service that already holds data: the store holds    *)
(* no record or a staff report, the user collection no user or a user      *)
(* with a refresh token of a login at hour 0, the chat history of          *)
(* "10.0.0.1" is full, and one request is served, which for a chat         *)
(* message may be preceded by the arrival of others.                       *)
(***************************************************************************)
\* the record of POST /staff {category: "Room", severity: "Low", ...} at hour 0
SavedReport ==
  [hydrate([EmptyData EXCEPT !.source = "Staff", !.category = "Room",
                             !.severity = "Low", !.location = "Pool",
                             !.details = Txt_Bad], 0)
     EXCEPT !._id = 1]

\* the user of POST /register {username: "ann", password: "pw", role: "admin"}
SavedUser == [_id |-> 1, username |-> "ann", password |-> "pw", role |-> "admin"]

\* the RefreshToken record of a login of that user at hour 0
SavedToken ==
  [token |-> [payload |-> [id |-> 1, username |-> "ann", role |-> "admin"],
              secret |-> "JWT_REFRESH_SECRET", iat |-> 0, exp |-> RefreshTtl],
   user |-> 1, expires |-> RefreshTtl]

InitAll ==
  /\ variant \in Variants
  /\ env = AllSet
  /\ store \in {<<>>, <<SavedReport>>}
  /\ negIds = {}
  /\ alerts = <<>>
  /\ req = NoReq
  /\ res = NoRes
  /\ now \in Instants
  /\ users \in {{}, {SavedUser}}
  /\ refreshTokens \in {<<>>} \cup {<<SavedToken>> : u \in users}
  /\ chatHistoryStore = [s \in Sessions |-> IF s = "10.0.0.1" THEN 1 ELSE 0]
  /\ arrays = [i \in {1} |-> PriorHistory]
  /\ chatting = {}
  /\ exchanges = [s \in Sessions |-> IF s = "10.0.0.1" THEN PriorPairs ELSE <<>>]
  /\ asked = PriorExchanges
  /\ registering = {}
  /\ submitting = {}

\* no request has been answered yet
Unanswered == res = NoRes

NextAll ==
  \/ Unanswered /\ PostGuest
  \/ Unanswered /\ PostStaff
  \/ Unanswered /\ PostContextual
  \/ Unanswered /\ GetFeedback
  \/ Unanswered /\ ValidateToken
  \/ Unanswered /\ ChatMessage
  \/ Unanswered /\ ChatReply
  \/ Unanswered /\ Register
  \/ Unanswered /\ Login
  \/ Unanswered /\ Refresh

SpecAll == InitAll /\ [][NextAll]_vars

(***************************************************************************)
(* Vocabulary of the properties.                                           *)
(***************************************************************************)
\* two code units that are the same letter, case aside
SameLetter(a, b) ==
  \/ a = b
  \/ (a >= 65 /\ a <= 90 /\ b = a + 32)
  \/ (b >= 65 /\ b <= 90 /\ a = b + 32)

\* k occurs in s as a case-insensitive substring
OccursCI(k, s) ==
  \E i \in 1..(Len(s) - Len(k) + 1) :
    \A j \in 1..Len(k) : SameLetter(s[i + j - 1], k[j])

KeywordSet ==
  {NEGATIVE_KEYWORDS_ENG[n] : n \in DOMAIN NEGATIVE_KEYWORDS_ENG}
  \cup {NEGATIVE_KEYWORDS_AMH[n] : n \in DOMAIN NEGATIVE_KEYWORDS_AMH}

ContainsNegativeKeyword(c) ==
  c # undefinedStr /\ \E k \in KeywordSet : OccursCI(k, c)

\* the alert attempts made for the record with this id
AlertsFor(id) == {i \in DOMAIN alerts : alerts[i].docId = id}

\* the path a stored record came in by
IsContextualDoc(doc) == doc.contextLoc # "undefined"
IsStaffDoc(doc) == ~IsContextualDoc(doc) /\ doc.source = "Staff"
IsGuestDoc(doc) == ~IsContextualDoc(doc) /\ doc.source = "Guest"

\* the record was classified negative: by its stored sentiment or its
\* comment's keywords (guest), by its severity (staff), by the cascade
\* result the handler computed (contextual)
ClassifiedNegative(doc) ==
  IF IsContextualDoc(doc) THEN doc._id \in negIds
  ELSE IF IsStaffDoc(doc) THEN doc.severity = "High"
  ELSE IF variant = "sentiment" THEN doc.sentiment = "Negative"
  ELSE ContainsNegativeKeyword(doc.comment)

\* a step in which a submission handler ran to its response
SubmissionStep == <<store, req, res>>' # <<store, req, res>>

\* the step added an alert attempt
AlertAdded == Len(alerts') = Len(alerts) + 1

(***************************************************************************)
(* C1: the alert attempts are exactly one per persisted record that was    *)
(* classified negative, and none for any other record: every attempt       *)
(* refers to a stored record, a negative record has exactly one attempt, a  *)
(* non-negative record has none, so the number of attempts equals the       *)
(* number of negative records.                                              *)
(***************************************************************************)
C1_AlertsMatchNegatives ==
  /\ \A i \in DOMAIN alerts : alerts[i].docId \in 1..Len(store)
  /\ \A n \in DOMAIN store :
       /\ store[n]._id = n
       /\ Cardinality(AlertsFor(n)) = IF ClassifiedNegative(store[n]) THEN 1 ELSE 0
  /\ Len(alerts) = Cardinality({n \in DOMAIN store : ClassifiedNegative(store[n])})

\* two records stored, the first negative with its alert, the second not
C1_Witness ==
  /\ Len(store) = 2
  /\ ClassifiedNegative(store[1])
  /\ ~ClassifiedNegative(store[2])
  /\ Len(alerts) = 1
  /\ alerts[1].docId = 1

(***************************************************************************)
(* C2: a staff submission that is persisted is stored with source Staff    *)
(* and raises an alert if and only if its severity is "High", whatever its  *)
(* category, location and details; one that is not persisted raises none.   *)
(***************************************************************************)
C2_StaffAlertIffHigh ==
  [][ (SubmissionStep /\ req'.path = "staff") =>
        /\ (res'.status = 201) =>
             /\ store' = Append(store, res'.doc)
             /\ res'.doc.source = "Staff"
             /\ AlertAdded <=> (req'.body.severity = "High")
             /\ AlertAdded => alerts'[Len(alerts')].docId = res'.doc._id
        /\ (res'.status # 201) => (store' = store /\ alerts' = alerts)
        /\ ~AlertAdded => alerts' = alerts ]_vars

\* a Low-severity report whose details hold a negative keyword, stored
\* without any alert
C2_Witness ==
  /\ req.path = "staff"
  /\ res.status = 201
  /\ req.body.severity = "Low"
  /\ ContainsNegativeKeyword(req.body.details)
  /\ AlertsFor(res.doc._id) = {}
  /\ store[res.doc._id].source = "Staff"

(***************************************************************************)
(* C3: determineIsNegative returns the result of the fixed-order cascade:  *)
(* true if loc is checkout and checkoutSpeed or billingAccuracy is at most  *)
(* 2, else true if loc is room and roomCleanliness or bathroomCleanliness   *)
(* is at most 2, else true if loc is dining_table and foodQuality is at     *)
(* most 2, else true if a scanned comment field holds a negative keyword,   *)
(* else false; an absent rating is never at most 2.                         *)
(***************************************************************************)
AtMost2(r) == r \in {0, 1, 2}

CascadeResult(fd, loc) ==
  IF loc = "checkout" /\ (AtMost2(fd.checkoutSpeed) \/ AtMost2(fd.billingAccuracy))
  THEN "true"
  ELSE IF loc = "room"
          /\ (AtMost2(fd.roomCleanliness) \/ AtMost2(fd.bathroomCleanliness))
  THEN "true"
  ELSE IF loc = "dining_table" /\ AtMost2(fd.foodQuality)
  THEN "true"
  ELSE IF \E n \in DOMAIN commentFields :
            ContainsNegativeKeyword(fd[commentFields[n]])
  THEN "true"
  ELSE "false"

C3_CascadeResult ==
  (req.path = "determineIsNegative" /\ res # NoRes) =>
     res.value = CascadeResult(req.body.feedbackData, req.body.loc)

(***************************************************************************)
(* C4: a contextual submission that matches no rating rule and has a       *)
(* negative keyword in one of its scanned comment fields is classified      *)
(* negative: when the store accepts it, it is persisted, answered 201 and   *)
(* raises an alert.                                                         *)
(***************************************************************************)
NoRatingRule(fd, loc) ==
  /\ ~(loc = "checkout" /\ (AtMost2(fd.checkoutSpeed) \/ AtMost2(fd.billingAccuracy)))
  /\ ~(loc = "room" /\ (AtMost2(fd.roomCleanliness) \/ AtMost2(fd.bathroomCleanliness)))
  /\ ~(loc = "dining_table" /\ AtMost2(fd.foodQuality))

KeywordOnlyRequest ==
  /\ req.path = "contextual"
  /\ req.body.context.present
  /\ req.body.context.loc # "undefined"
  /\ req.body.source \in {"undefined", "Guest", "Staff"}
  /\ req.dbOk
  /\ NoRatingRule(req.body.feedbackData, req.body.context.loc)
  /\ \E n \in DOMAIN commentFields :
       ContainsNegativeKeyword(req.body.feedbackData[commentFields[n]])

C4_KeywordOnlyIsNegative ==
  KeywordOnlyRequest =>
    /\ res.status = 201
    /\ Len(store) >= 1
    /\ store[Len(store)] = res.doc
    /\ Cardinality(AlertsFor(res.doc._id)) = 1

(***************************************************************************)
(* C5: a contextual submission without a context object or without         *)
(* context.loc is answered 400 and persists no record and raises no alert.  *)
(***************************************************************************)
C5_MissingContextRejected ==
  [][ (SubmissionStep /\ req'.path = "contextual"
       /\ (~req'.body.context.present \/ req'.body.context.loc = "undefined")) =>
        /\ res'.status = 400
        /\ res'.doc = NoDoc
        /\ UNCHANGED <<store, alerts, negIds>> ]_vars

\* a body with a context object that has no loc, answered 400
C5_Witness ==
  /\ req.path = "contextual"
  /\ req.body.context.present
  /\ req.body.context.loc = "undefined"
  /\ res.status = 400
  /\ store = <<>>
  /\ alerts = <<>>

(***************************************************************************)
(* C6: checkIfNegative returns true exactly for the comments that hold a   *)
(* keyword of the English or the Amharic list as a case-insensitive         *)
(* substring, false for the empty and the absent comment, and touches       *)
(* neither the store nor the alerts.                                        *)
(***************************************************************************)
C6_KeywordClassifier ==
  (req.path = "checkIfNegative" /\ res # NoRes) =>
     /\ (res.value = "true") <=> ContainsNegativeKeyword(req.body.comment)
     /\ res.value \in {"true", "false"}
     /\ (req.body.comment \in {undefinedStr, <<>>}) => res.value = "false"
     /\ store = <<>>
     /\ alerts = <<>>

\* "BAD" is classified negative
C6_Witness ==
  /\ req.path = "checkIfNegative"
  /\ req.body.comment = <<66, 65, 68>>
  /\ res.value = "true"

(***************************************************************************)
(* C7: the sentiment classifier never fails a guest submission.  For an    *)
(* absent comment, a missing API key, a transport error, a non-success      *)
(* status, an unreadable reply or a reply text with neither "positive" nor  *)
(* "negative", the submission is answered 201 whenever the store accepts    *)
(* the record, the record is persisted with sentiment Neutral and no alert  *)
(* is raised; it is answered 500 only when the store fails.                 *)
(***************************************************************************)
ClassifierFails ==
  \/ req.body.comment \in {undefinedStr, <<>>}
  \/ ~env["GEMINI_API_KEY"]
  \/ req.api.kind \in {"neterr", "status", "badjson"}
  \/ /\ req.api.kind = "ok"
     /\ \/ req.api.text = undefinedStr
        \/ (~OccursCI(Txt_positive, req.api.text)
            /\ ~OccursCI(Txt_negative, req.api.text))

C7_ClassifierNeverFailsGuest ==
  (req.path = "guest" /\ variant = "sentiment" /\ ClassifierFails) =>
     /\ (res.status = 201) <=> req.dbOk
     /\ res.status \in {201, 500}
     /\ (res.status = 201) =>
          /\ res.doc.sentiment = "Neutral"
          /\ store[Len(store)] = res.doc
          /\ AlertsFor(res.doc._id) = {}

\* the call to the service failed at transport level; stored as Neutral
C7_Witness ==
  /\ req.path = "guest"
  /\ variant = "sentiment"
  /\ req.api.kind = "neterr"
  /\ res.status = 201
  /\ store[Len(store)].sentiment = "Neutral"

(***************************************************************************)
(* C8: every persisted guest submission has source Guest, and an alert is  *)
(* raised for it if and only if the negativity decision for its comment is  *)
(* Negative: the sentiment the classifier returned (stored with the record) *)
(* or, in the keyword revision, a negative keyword in the comment.  The     *)
(* rating plays no part.                                                    *)
(***************************************************************************)
ReplySentiment ==
  IF ClassifierFails THEN "Neutral"
  ELSE IF OccursCI(Txt_positive, req.api.text) THEN "Positive"
  ELSE "Negative"

C8_GuestAlertIffNegative ==
  (req.path = "guest" /\ res.status = 201) =>
     /\ res.doc.source = "Guest"
     /\ store[Len(store)] = res.doc
     /\ (variant = "sentiment") =>
          /\ res.doc.sentiment = ReplySentiment
          /\ (AlertsFor(res.doc._id) # {}) <=> (res.doc.sentiment = "Negative")
     /\ (variant = "keyword") =>
          ((AlertsFor(res.doc._id) # {}) <=> ContainsNegativeKeyword(req.body.comment))

\* a guest record with the best rating and a Negative decision, alerted
C8_Witness ==
  /\ req.path = "guest"
  /\ res.status = 201
  /\ req.body.rating = 5
  /\ store[Len(store)].source = "Guest"
  /\ AlertsFor(res.doc._id) # {}

(***************************************************************************)
(* C9: the 201 response is sent while the alert it triggered is still      *)
(* undelivered (handed to the provider and in flight, or skipped), and the  *)
(* later outcome of the delivery, a failure included, changes neither the   *)
(* response nor the persisted records.                                      *)
(***************************************************************************)
C9_ResponseDoesNotWaitForAlert ==
  [][ /\ AlertAdded =>
           /\ res'.status = 201
           /\ res'.doc = store'[Len(store')]
           /\ alerts'[Len(alerts')].docId = res'.doc._id
           /\ alerts'[Len(alerts')].state \in {"inflight", "skipped"}
      /\ (\E i \in DOMAIN alerts : alerts'[i].state # alerts[i].state) =>
           UNCHANGED <<store, req, res>> ]_vars

\* the delivery of the alert of the last submission failed; the response
\* and the record are as they were
C9_Witness ==
  /\ res.status = 201
  /\ store[Len(store)] = res.doc
  /\ \E i \in DOMAIN alerts :
       alerts[i].docId = res.doc._id /\ alerts[i].state = "failed"

(***************************************************************************)
(* C10: when the provider credentials, the sender number or the recipient  *)
(* number is not configured, no alert attempt hands anything to the         *)
(* provider, and the submission that made the attempt is answered 201 with  *)
(* its persisted record.                                                    *)
(***************************************************************************)
Unconfigured ==
  \/ ~env["TWILIO_ACCOUNT_SID"]
  \/ ~env["TWILIO_AUTH_TOKEN"]
  \/ ~env["TWILIO_PHONE_NUMBER"]
  \/ ~env["ALERT_PHONE_NUMBER"]

C10_UnconfiguredAlertIsNoOp ==
  [][ Unconfigured =>
        /\ \A i \in DOMAIN alerts' : alerts'[i].state = "skipped"
        /\ AlertAdded =>
             /\ res'.status = 201
             /\ res'.doc = store'[Len(store')]
             /\ alerts'[Len(alerts')].docId = res'.doc._id ]_vars

\* the sender number is missing: the attempt is skipped, the answer is 201
C10_Witness ==
  /\ ~env["TWILIO_PHONE_NUMBER"]
  /\ res.status = 201
  /\ store[Len(store)] = res.doc
  /\ \E i \in DOMAIN alerts :
       alerts[i].docId = res.doc._id /\ alerts[i].state = "skipped"

(***************************************************************************)
(* C11: GET /feedback answers 401 when the request carries no bearer       *)
(* credential or one that does not verify (wrong signature, or expired),   *)
(* and 403 when the verified credential's role is not admin, in both cases  *)
(* without reading the feedback store; the store is read only for a        *)
(* verified admin credential.                                              *)
(***************************************************************************)
\* a step in which the listing handler (or its middleware) answered
ListingStep == <<req, res>>' # <<req, res>> /\ req'.path = "list"

\* the header carries a token signed with the access secret and not expired
Verifies(h) ==
  h.kind = "bearer" /\ h.token.secret = "JWT_SECRET" /\ h.token.exp > now

C11_ListingGuarded ==
  [][ ListingStep =>
        LET h == req'.body.authorization
        IN  /\ ~Verifies(h) => (res'.status = 401 /\ res'.find = "none")
            /\ (Verifies(h) /\ h.token.payload.role # "admin")
                 => (res'.status = 403 /\ res'.find = "none")
            /\ res'.find # "none"
                 => (Verifies(h) /\ h.token.payload.role = "admin") ]_vars

(***************************************************************************)
(* C12: a guest submission answered 201 and then fetched through the       *)
(* listing appears there, under the id of the response, with the rating,   *)
(* comment, roomNumber and language that were submitted, and with a        *)
(* timestamp and a sentiment.                                              *)
(***************************************************************************)
\* the record carries the key k with the value v
HasField(doc, k, v) == k \in DOMAIN doc /\ doc[k] = v

C12_GuestRoundTrip ==
  [][ (ListingStep /\ res'.status = 200 /\ req.path = "guest" /\ res.status = 201) =>
        \E i \in DOMAIN res'.list :
          LET listed == res'.list[i]
          IN  /\ listed._id = res.doc._id
              /\ HasField(listed, "rating", req.body.rating)
              /\ HasField(listed, "comment", req.body.comment)
              /\ HasField(listed, "roomNumber", req.body.roomNumber)
              /\ HasField(listed, "language", req.body.language)
              /\ "timestamp" \in DOMAIN listed
              /\ "sentiment" \in DOMAIN listed ]_vars

(***************************************************************************)
(* C18: GET /feedback/validate-token answers 400 with valid=false when no  *)
(* tok is given, 404 with valid=false for a token that is not found or was  *)
(* already used, and 200 only together with valid=true and the token's      *)
(* context.                                                                *)
(***************************************************************************)
C18_ValidateToken ==
  (req.path = "validate-token") =>
    /\ Falsy(req.body.tok) => (res.status = 400 /\ res.valid = "false")
    /\ req.body.tok \in {"NOPE", "USED_TOKEN"}
         => (res.status = 404 /\ res.valid = "false")
    /\ (res.status = 200) => (res.valid = "true" /\ res.context # "undefined")

(***************************************************************************)
(* C13: every record persisted by the staff or the contextual path carries *)
(* an isNegative field that equals the negativity decision of its          *)
(* submission: severity High for staff, the cascade result for contextual. *)
(***************************************************************************)
C13_IsNegativePersisted ==
  \A n \in DOMAIN store :
    (IsStaffDoc(store[n]) \/ IsContextualDoc(store[n])) =>
      HasField(store[n], "isNegative",
               IF ClassifiedNegative(store[n]) THEN "true" ELSE "false")

(***************************************************************************)
(* C14: a submission answered 201 has added exactly one record to the      *)
(* store, and the body of the response is that record with its id and its  *)
(* timestamp; a submission answered 400 or 500 has added none.             *)
(***************************************************************************)
SubmissionPaths == {"guest", "staff", "contextual"}

C14_OneRecordPerCreated ==
  [][ (SubmissionStep /\ req'.path \in SubmissionPaths) =>
        /\ res'.status \in {201, 400, 500}
        /\ (res'.status = 201) =>
             /\ store' = Append(store, res'.doc)
             /\ res'.doc._id >= 1
             /\ \A n \in DOMAIN store : store[n]._id # res'.doc._id
             /\ res'.doc.timestamp = now
        /\ (res'.status \in {400, 500}) => store' = store ]_vars

\* a second record stored and answered, after a submission was turned down
C14_Witness ==
  /\ req.path = "contextual"
  /\ res.status = 201
  /\ Len(store) = 2
  /\ store[2] = res.doc
  /\ res.doc._id = 2

(***************************************************************************)
(* C15: every persisted record has its source in {Guest, Staff} and every  *)
(* rating it carries within 1..5; a contextual submission with a source     *)
(* outside the enum or a rating outside 1..5 persists nothing and raises no *)
(* alert, even when the cascade classifies it negative.                     *)
(***************************************************************************)
RatingPaths ==
  {"checkoutSpeed", "billingAccuracy", "roomCleanliness",
   "bathroomCleanliness", "foodQuality"}

WellFormed(doc) ==
  /\ doc.source \in {"Guest", "Staff"}
  /\ \A k \in RatingPaths : doc[k] # undefinedNum => doc[k] \in 1..5

\* the body of a contextual submission names a source outside the enum or a
\* rating outside 1..5
Violating(body) ==
  \/ ~Falsy(body.source) /\ body.source \notin {"Guest", "Staff"}
  \/ \E k \in RatingPaths :
       body.feedbackData[k] # undefinedNum /\ body.feedbackData[k] \notin 1..5

NoComments(fd) ==
  \A k \in CommentNames : ~Truthy(fd[k])

\* the handler reaches save() with this request, so that the store can
\* report a failure: always on the guest and staff paths; on the contextual
\* path when the context names a location and the cascade returns, which
\* it does not when it comes to call a checkIfNegative that is not defined
SaveReached ==
  req'.path = "contextual" =>
    /\ req'.body.context.present
    /\ ~Falsy(req'.body.context.loc)
    /\ ~ ( /\ variant = "sentiment"
           /\ NoRatingRule(req'.body.feedbackData, req'.body.context.loc)
           /\ ~NoComments(req'.body.feedbackData) )

\* the record of the request fails a validator of the schema
InvalidRecord ==
  \/ req'.path = "staff"
       /\ req'.body.category \notin {"Room", "Food", "Service", "Maintenance", "Other"}
  \/ req'.path = "contextual" /\ Violating(req'.body)

C16_ValidationIs400 ==
  [][ (SubmissionStep /\ req'.path \in SubmissionPaths /\ SaveReached) =>
        /\ InvalidRecord => res'.status = 400
        /\ (~InvalidRecord /\ ~req'.dbOk) => res'.status = 500 ]_vars

(***************************************************************************)
(* C16, amended: on the contextual path a validation failure of the store  *)
(* is answered 400 "Validation Failed" and any other failure of the store   *)
(* 500; on the guest and staff paths every failure of the store, a          *)
(* validation failure included, is answered 500 with the generic message.   *)
(* No failure persists a record.                                            *)
(***************************************************************************)
C16_ValidationByPath ==
  [][ (SubmissionStep /\ req'.path \in SubmissionPaths /\ SaveReached) =>
        /\ (InvalidRecord /\ req'.path = "contextual")
             => (res'.status = 400 /\ res'.message = "Validation Failed"
                 /\ store' = store)
        /\ (InvalidRecord /\ req'.path = "staff")
             => (res'.status = 500 /\ store' = store
                 /\ res'.message = "Server error while saving staff feedback.")
        /\ (~InvalidRecord /\ ~req'.dbOk)
             => (res'.status = 500 /\ store' = store
                 /\ res'.message \in
                      {"Server error while saving guest feedback.",
                       "Server error while saving staff feedback.",
                       "Server error while saving feedback."}) ]_vars

\* a staff report with a category outside the enum, answered 500
C16_Witness ==
  /\ req.path = "staff"
  /\ req.body.category = "Lobby"
  /\ res.status = 500
  /\ res.message = "Server error while saving staff feedback."

(***************************************************************************)
(* C17, as claimed: a contextual submission is persisted only if its       *)
(* context.token is one that the token validator reports valid.            *)
(***************************************************************************)
ValidTokens ==
  {t \in DOMAIN validTestTokens : validTestTokens[t].valid = "true"}

AuthStep(path) ==
  /\ req'.path = path
  /\ <<req, res, users, refreshTokens>>' # <<req, res, users, refreshTokens>>

\* the positions of the records that hold the token
Holding(tokens, tok) == {i \in DOMAIN tokens : tokens[i].token = tok}

C19_RefreshOnlyWhenValid ==
  [][ AuthStep("refresh") =>
        LET tok == req'.body.refreshToken
            held == Holding(refreshTokens, tok)
        IN  /\ (res'.status = 200 \/ res'.token # NoToken) =>
                 /\ res'.status = 200
                 /\ \E i \in held : refreshTokens[i].expires > now
                 /\ tok.secret = "JWT_REFRESH_SECRET"
                 /\ tok.exp > now
                 /\ res'.token.secret = "JWT_SECRET"
                 /\ res'.token.payload = tok.payload
            /\ (req'.dbOk /\ \E i \in held : refreshTokens[i].expires < now) =>
                 /\ res'.status = 401
                 /\ Len(refreshTokens') = Len(refreshTokens) - 1
                 /\ Cardinality(Holding(refreshTokens', tok)) = Cardinality(held) - 1
            /\ (req'.dbOk /\ tok # NoToken /\ tok.exp < now) =>
                 (res'.status = 401 /\ res'.token = NoToken) ]_vars

\* an expired token was presented, answered 401, and its record is gone
C19_Witness ==
  /\ req.path = "refresh"
  /\ res.status = 401
  /\ res.message = "Refresh token expired"
  /\ req.body.refreshToken.exp < now
  /\ Holding(refreshTokens, req.body.refreshToken) = {}

(***************************************************************************)
(* C20: the refresh-token collection changes only by a successful login,   *)
(* which appends exactly one record, and by a refresh that finds the       *)
(* stored record expired, which removes that record.  A failed login, a     *)
(* successful refresh, a refresh with an unknown or missing token and a     *)
(* register request leave it unchanged.                                     *)
(***************************************************************************)
C20_RefreshTokenFrame ==
  [][ /\ AuthStep("login") =>
           IF res'.status = 200
           THEN /\ Len(refreshTokens') = Len(refreshTokens) + 1
                /\ \A i \in DOMAIN refreshTokens : refreshTokens'[i] = refreshTokens[i]
                /\ refreshTokens'[Len(refreshTokens')].token = res'.refreshToken
           ELSE refreshTokens' = refreshTokens
      /\ AuthStep("refresh") =>
           LET tok == req'.body.refreshToken
               held == Holding(refreshTokens, tok)
           IN  IF refreshTokens' # refreshTokens
               THEN /\ res'.status = 401
                    /\ \E i \in held :
                         /\ refreshTokens[i].expires < now
                         /\ refreshTokens' = remove(i)
               ELSE \/ res'.status # 401
                    \/ held = {}
                    \/ \A i \in held : refreshTokens[i].expires >= now
      /\ (AuthStep("refresh") /\ res'.status = 200) => refreshTokens' = refreshTokens
      /\ (AuthStep("refresh") /\ Holding(refreshTokens, req'.body.refreshToken) = {})
           => refreshTokens' = refreshTokens
      /\ AuthStep("register") => refreshTokens' = refreshTokens
      /\ (refreshTokens' # refreshTokens) => (AuthStep("login") \/ AuthStep("refresh"))
    ]_vars

\* a refresh that succeeded while the record it used is still stored
C20_Witness ==
  /\ req.path = "refresh"
  /\ res.status = 200
  /\ Holding(refreshTokens, req.body.refreshToken) # {}
  /\ Len(refreshTokens) = 2

(***************************************************************************)
(* C25  POST /chat/message answers 503 whenever the AI credential is not   *)
(* configured, whatever the message; otherwise 400 when the message is     *)
(* empty after sanitisation; otherwise 500 when the upstream call fails,   *)
(* returns a non-success status or a body without reply text; and 200      *)
(* with the reply only when the upstream returned reply text.              *)
(***************************************************************************)
\* a chat message arrives / the AI service has answered a waiting handler
ChatArrives == asked' = asked + 1
ChatAnswered == asked' = asked /\ chatting' # chatting

\* nothing is left of the message once < > { } are taken out
EmptyOnceSanitised(message) ==
  message = undefinedStr \/ \A i \in DOMAIN message : message[i] \in Stripped

\* the upstream returned reply text
ReplyText(up) ==
  up.kind = "response" /\ up.status \in 200..299 /\ up.text # undefinedStr
    /\ up.text # <<>>

C25_ChatStatus ==
  [][ /\ ChatArrives =>
           IF ~env["GEMINI_API_KEY"] THEN res'.status = 503
           ELSE IF EmptyOnceSanitised(req'.body.message) THEN res'.status = 400
           ELSE res' = NoRes /\ chatting' # chatting
      /\ ChatAnswered =>
           IF ReplyText(req'.api)
           THEN res'.status = 200 /\ res'.reply = req'.api.text
           ELSE res'.status = 500 /\ res'.reply = undefinedStr ]_vars

\* a message of nothing but < and > has been answered 400
C25_Witness ==
  /\ req.path = "chat"
  /\ req.body.message = <<60, 62>>
  /\ res.status = 400

(***************************************************************************)
(* C26  After any sequence of chat messages each caller's stored history   *)
(* holds at most 2 * MAX_HISTORY_LENGTH entries, and whenever the bound    *)
(* would be exceeded the entries dropped are the oldest ones: the history  *)
(* after an exchange is the newest 2 * MAX_HISTORY_LENGTH entries of the   *)
(* history before it followed by the exchange.                             *)
(***************************************************************************)
\* the entries stored for a session
History(s) ==
  IF chatHistoryStore[s] = 0 THEN <<>> ELSE arrays[chatHistoryStore[s]]

\* the entries stored for a session after the step
HistoryAfter(s) ==
  IF chatHistoryStore'[s] = 0 THEN <<>> ELSE arrays'[chatHistoryStore'[s]]

\* the session of the request that the step answers
Requester == IF Falsy(req'.body.ip) THEN "default-session" ELSE req'.body.ip

\* the user/model pair of the request that the step answers
Exchange == pair(sanitizeInput(req'.body.message), res'.reply)

HistoryBounded ==
  \A s \in Sessions : Len(History(s)) <= 2 * MAX_HISTORY_LENGTH

C26_HistoryEvictsOldest ==
  [][ /\ HistoryBounded'
      /\ (ChatAnswered /\ res'.status = 200) =>
           HistoryAfter(Requester) =
             slice(History(Requester) \o Exchange, 2 * MAX_HISTORY_LENGTH) ]_vars

(***************************************************************************)
(* C27  When messages of one caller are in flight at the same time, the    *)
(* history stored for the caller once they have all completed contains     *)
(* the user/model pair of every successful exchange among the              *)
(* MAX_HISTORY_LENGTH most recently completed ones.                        *)
(***************************************************************************)
\* the two entries of the pair stand next to each other in the history
Holds(history, p) ==
  \E i \in 1..(Len(history) - 1) : history[i] = p[1] /\ history[i + 1] = p[2]

Settled(s) == \A p \in chatting : p.sessionId # s

C27_NoExchangeLost ==
  \A s \in Sessions :
    Settled(s) =>
      \A k \in DOMAIN exchanges[s] : Holds(History(s), exchanges[s][k])

(***************************************************************************)
(* C30  A chat request answered 400, 500 or 503 leaves the stored history  *)
(* entries of every caller unchanged; a chat request answered 200 appends  *)
(* exactly one user entry followed by one model entry to the history of    *)
(* the requesting caller (the oldest entries making room for them) and     *)
(* changes no other caller's history.                                      *)
(***************************************************************************)
\* the entries of history, the oldest dropped number of them left out
Kept(history, dropped) == SubSeq(history, dropped + 1, Len(history))

C30_ChatHistoryFrame ==
  [][ /\ (req'.path = "chat" /\ res'.status \in {400, 500, 503}) =>
           \A s \in Sessions : HistoryAfter(s) = History(s)
      /\ (req'.path = "chat" /\ res'.status = 200) =>
           /\ \E dropped \in 0..Len(History(Requester)) :
                HistoryAfter(Requester) =
                  Kept(History(Requester), dropped) \o Exchange
           /\ \A s \in Sessions \ {Requester} : HistoryAfter(s) = History(s) ]_vars

(***************************************************************************)
(* C24  GET /feedback, when authorised, returns every persisted feedback   *)
(* record, with no filtering or pagination, ordered so that timestamps     *)
(* are non-increasing from the first element to the last.                  *)
(***************************************************************************)
\* list holds each record of st once and nothing else
SameRecords(list, st) ==
  /\ Len(list) = Len(st)
  /\ \A i \in DOMAIN st : \E j \in DOMAIN list : list[j] = st[i]
  /\ \A i, j \in DOMAIN list : list[i]._id = list[j]._id => i = j

NonIncreasing(list) ==
  \A i \in 1..(Len(list) - 1) : list[i].timestamp >= list[i + 1].timestamp

C24_ListingCompleteAndSorted ==
  [][ (ListingStep /\ res'.status = 200) =>
        /\ SameRecords(res'.list, store)
        /\ NonIncreasing(res'.list) ]_vars

\* a listing of two records that puts the later record first
C24_Witness ==
  /\ req.path = "list"
  /\ res.status = 200
  /\ Len(res.list) = 2
  /\ res.list[1]._id = 2
  /\ res.list[1].timestamp > res.list[2].timestamp

(***************************************************************************)
(* C28  A contextual submission whose only negative signal is a negative   *)
(* keyword in amenitiesComments, the amenities comment field that the      *)
(* Feedback schema persists, is classified negative by the keyword scan    *)
(* of the cascade.                                                         *)
(***************************************************************************)
AmenitiesKeywordOnly(fd, loc) ==
  /\ NoRatingRule(fd, loc)
  /\ ContainsNegativeKeyword(fd.amenitiesComments)
  /\ \A k \in CommentNames \ {"amenitiesComments"} : ~ContainsNegativeKeyword(fd[k])

C28_AmenitiesKeywordIsNegative ==
  ( /\ req.path = "determineIsNegative"
    /\ res # NoRes
    /\ AmenitiesKeywordOnly(req.body.feedbackData, req.body.loc) )
  => res.value = "true"

(***************************************************************************)
(* C29  On every submission path an alert-dispatch attempt happens only    *)
(* after that submission's record has been saved: a submission whose save  *)
(* fails (validation or store error) triggers no alert even when it was    *)
(* classified negative, and no alert refers to a record that is not in     *)
(* the store.                                                              *)
(***************************************************************************)
Stored(id) == \E j \in DOMAIN store : store[j]._id = id

AlertsStored == \A i \in DOMAIN alerts : Stored(alerts[i].docId)

C29_AlertOnlyAfterSave ==
  [][ /\ AlertAdded =>
           /\ res'.status = 201
           /\ store' = Append(store, res'.doc)
           /\ alerts'[Len(alerts')].docId = res'.doc._id
      /\ (SubmissionStep /\ res'.status # 201) => alerts' = alerts
      /\ AlertsStored' ]_vars

\* a staff report of high severity whose save failed: nothing was alerted
C29_Witness ==
  /\ req.path = "staff"
  /\ req.body.severity = "High"
  /\ ~req.dbOk
  /\ res.status = 500
  /\ alerts = <<>>
  /\ store = <<>>

(***************************************************************************)
(* C22  Once persisted, a feedback record is never modified or deleted by  *)
(* any operation (submissions, listing, token validation, chat, auth):     *)
(* the feedback store only grows and every existing record keeps its       *)
(* field values in every later state.                                      *)
(***************************************************************************)
C22_RecordsImmutable ==
  [][ /\ Len(store') >= Len(store)
      /\ \A i \in DOMAIN store : store'[i] = store[i] ]_vars

\* a submission was persisted next to the record the store already held
C22_Witness ==
  /\ Len(store) = 2
  /\ store[1] = SavedReport
  /\ res.status = 201
  /\ res.doc = store[2]

(***************************************************************************)
(* C21  Usernames are unique under any interleaving of register requests:  *)
(* the user collection never holds two records with the same username,     *)
(* and of several concurrent register requests for the same username at    *)
(* most one is answered 201 while every other one is answered 400          *)
(* "Username already exists" without creating a user.                      *)
(***************************************************************************)
UsernamesUnique ==
  \A u, v \in users : u.username = v.username => u = v

\* a waiting register handler is answered
RegisterAnswered == registering' # registering /\ res'.status # 0

C21_RegisterRace ==
  [][ /\ UsernamesUnique'
      /\ ( /\ RegisterAnswered
           /\ req'.dbOk
           /\ \E u \in users : u.username = req'.body.username )
         => /\ res'.status = 400
            /\ res'.message = "Username already exists."
            /\ users' = users ]_vars

(***************************************************************************)
(* C23  For any set of concurrently handled submissions, the persisted     *)
(* records and the alert-dispatch attempts are the same as if the          *)
(* submissions had been handled one at a time in some order (the order in  *)
(* which they are answered): whenever a submission is answered, the store, *)
(* the alerts and the response change exactly as they do when the handler  *)
(* of that request runs from start to end on the store of that moment, so  *)
(* that no classification, record or alert decision depends on another     *)
(* submission in flight.                                                   *)
(***************************************************************************)
\* the handler of request q run from start to end
HandledAlone(q) ==
  \/ /\ q.path = "guest"
     /\ guestSaved(guestLocals(q.body, q.api), q.dbOk)
  \/ /\ q.path = "staff"
     /\ staffSaved(staffLocals(q.body), q.dbOk)
  \/ /\ q.path = "contextual"
     /\ IF contextualLocals(q.body).thrown # "none"
        THEN contextualThrown(contextualLocals(q.body))
        ELSE contextualSaved(contextualLocals(q.body), q.dbOk)

====
